---- MODULE Spec2Model ----
(***************************************************************************)
(* A model of graphics_editor.py: the object store, the transformation     *)
(* engine (apply_transformations), persistence (save_objects_to_file,      *)
(* load_objects_from_file) and the event handlers of OpenGLCanvas and      *)
(* MainWindow that create, transform, bake and delete objects.             *)
(*                                                                         *)
(* Numbers.  Python ints and floats are modelled by exact rationals, a     *)
(* pair <<n, d>> in lowest terms with d > 0.  1 and 1.0 are one value, as  *)
(* they are for Python's ==.  The rounding error of float arithmetic is    *)
(* not modelled; rotation angles are whole quarter turns, whose cosine and *)
(* sine are taken as exactly 0, 1 or -1.                                   *)
(*                                                                         *)
(* Python values.  A tuple and a list with the same items are different    *)
(* values ((1, 2) != [1, 2]); they are modelled by Tuple(s) and List(s).   *)
(* A function object such as dda_line is modelled by the string            *)
(* "<function dda_line>", which differs from the name "dda_line".  None    *)
(* (JSON null) is the string "None".                                       *)
(*                                                                         *)
(* Objects.  An object of the store is a record with the keys of the       *)
(* program's dict and one history field, uid, which the program does not   *)
(* have: the number of the creation that made the object.  It stands for   *)
(* the identity of the object, also across a save and a load.              *)
(*                                                                         *)
(* Canvas.  CANVAS_WIDTH, SCREEN_HEIGHT, MID_X and MID_Y are globals that  *)
(* a resize of the canvas sets; they are variables of the model.           *)
(*                                                                         *)
(* Drawing.  A call of a line or circle algorithm is modelled by the       *)
(* sequence of the calls of plot_styled_pixel it makes, and                *)
(* plot_styled_pixel by the vertices it gives to OpenGL.  draw_ellipse is  *)
(* modelled pass by pass of its two loops, and paintGL by the calls of the *)
(* scan-conversion algorithms it makes for the objects of the store.       *)
(*                                                                         *)
(* Specifications.  Spec has the handlers that create, select, transform,  *)
(* edit and delete objects; SpecDraw has the style buttons and their       *)
(* dialogs in place of the transformation buttons.  The other              *)
(* specifications call one function or one handler on inputs drawn from    *)
(* bounded sets.                                                           *)
(***************************************************************************)
EXTENDS Integers, Sequences, FiniteSets, TLC

VARIABLES
    objects_to_draw,        \* the object store (a list of dicts)
    next_object_id,
    current_mode,
    current_algo_func,
    temp_points,
    selected_object_id,
    current_style_choice,
    current_thickness,
    current_mask,
    current_color,
    input_dialog_active,    \* MainWindow.input_dialog_active
    input_dialog_callback,  \* the callback of the open dialog (NoCallback when none is open)
    data_file,              \* DATA_FILE: whether it exists, and its JSON content
    running,                \* whether the program runs (a window is open)
    n_appended,             \* history: transformation records appended so far
    n_styled,               \* history: style choices made so far
    session,                \* history: number of MainWindow constructions
    created,                \* history: ids given to objects, in creation order
    deleted,                \* history: uids of the objects deleted so far
    CANVAS_WIDTH,           \* width of the canvas
    SCREEN_HEIGHT,          \* height of the canvas
    MID_X, MID_Y,           \* the midpoint of the canvas
    h_pc, h_in, h_out       \* harness of the pure-function specifications

storeVars == <<objects_to_draw, next_object_id>>
styleVars == <<current_style_choice, current_thickness, current_mask, current_color>>
uiVars == <<current_mode, current_algo_func, temp_points, selected_object_id>>
dialogVars == <<input_dialog_active, input_dialog_callback>>
historyVars == <<session, n_styled, created, deleted, n_appended>>
harnessVars == <<h_pc, h_in, h_out>>
editorVars == <<storeVars, styleVars, uiVars, dialogVars, data_file, running, historyVars>>
canvasVars == <<CANVAS_WIDTH, SCREEN_HEIGHT, MID_X, MID_Y>>
vars == <<editorVars, harnessVars, canvasVars>>

----------------------------------------------------------------------------
(* Bounds of the model *)

MaxCreated == 3       \* objects created over a whole behaviour
MaxObjects == 2       \* objects in the store at one time
MaxTrans == 2         \* transformation records appended over a whole behaviour
MaxEdits == 3         \* objects created plus records appended over a whole behaviour
MaxSessions == 2      \* constructions of MainWindow (program starts)
MaxLen == 3           \* length of a transformation list given to the harness
MaxFileLen == 3       \* records of a file given to the harness
MaxCoord == 3         \* largest coordinate of an endpoint given to a line algorithm
MaxRadius == 6        \* largest radius given to the circle and ellipse algorithms
MaxStep == 33         \* largest step number given to the style modulator
MaxStore == 3         \* objects of a store in which an object is selected
MaxStyled == 1        \* styles chosen in one behaviour, by a style button or in an edit
MaxPainted == 2       \* objects of a store that is painted
MaxThickness == 3     \* largest current thickness when the thickness dialog opens

----------------------------------------------------------------------------
(* Program constants *)

GRID_SPACING == 20
INITIAL_WINDOW_WIDTH == 1200
INITIAL_WINDOW_HEIGHT == 700
MENU_WIDTH_PX == 200
MIN_CANVAS_WIDTH == 400
MIN_WINDOW_HEIGHT == 600

STYLE_SOLID == 1
STYLE_DOTTED == 2
STYLE_THICK == 3
STYLE_USER_DEFINED == 4

MODE_IDLE == 0
MODE_DRAWING_LINE_P1 == 1
MODE_DRAWING_LINE_P2 == 2
MODE_DRAWING_CIRCLE_CENTER == 3
MODE_DRAWING_CIRCLE_RADIUS == 4
MODE_DRAWING_ELLIPSE_CENTER == 5
MODE_DRAWING_ELLIPSE_RX_POINT == 6
MODE_DRAWING_ELLIPSE_RY_POINT == 7
MODE_SELECTING_OBJECT == 8
MODE_APPLY_TRANSLATE == 9
MODE_APPLY_ROTATE == 10
MODE_APPLY_SCALE == 11
MODE_APPLY_REFLECT == 12
MODE_APPLY_REFLECT_LINE_P1 == 13
MODE_APPLY_REFLECT_LINE_P2 == 14

None == "None"

----------------------------------------------------------------------------
(* Python values *)

Tuple(s) == [py |-> "tuple", items |-> s]
List(s) == [py |-> "list", items |-> s]

dda_line == "<function dda_line>"
bresenham_line == "<function bresenham_line>"
symmetrical_dda_line == "<function symmetrical_dda_line>"
draw_circle == "<function draw_circle>"
draw_ellipse == "<function draw_ellipse>"

----------------------------------------------------------------------------
(* Exact rational arithmetic *)

Abs(n) == IF n < 0 THEN -n ELSE n

RECURSIVE Gcd(_, _)
Gcd(a, b) == IF b = 0 THEN a ELSE Gcd(b, a % b)

\* the rational n/d in lowest terms, d # 0
Q(n, d) ==
    LET g == Gcd(Abs(n), Abs(d))
        s == IF d < 0 THEN -1 ELSE 1
    IN  <<(s * n) \div g, (s * d) \div g>>

R(n) == <<n, 1>>
QAdd(a, b) == Q(a[1] * b[2] + b[1] * a[2], a[2] * b[2])
QNeg(a) == <<-a[1], a[2]>>
QSub(a, b) == QAdd(a, QNeg(b))
QMul(a, b) == Q(a[1] * b[1], a[2] * b[2])
QDiv(a, b) == Q(a[1] * b[2], a[2] * b[1])
QLt(a, b) == a[1] * b[2] < b[1] * a[2]
QLe(a, b) == a[1] * b[2] <= b[1] * a[2]
QAbs(a) == <<Abs(a[1]), a[2]>>
QIsInt(a) == a[2] = 1

----------------------------------------------------------------------------
(* reflect_point_across_line and apply_transformations *)

\* math.cos and math.sin of math.radians(angle), for whole quarter turns
QuarterTurns(angle) ==
    IF angle[2] = 1 /\ angle[1] % 90 = 0 THEN (angle[1] \div 90) % 4 ELSE -1
CosDeg(angle) == CASE QuarterTurns(angle) = 0 -> R(1)
                   [] QuarterTurns(angle) = 1 -> R(0)
                   [] QuarterTurns(angle) = 2 -> R(-1)
                   [] QuarterTurns(angle) = 3 -> R(0)
SinDeg(angle) == CASE QuarterTurns(angle) = 0 -> R(0)
                   [] QuarterTurns(angle) = 1 -> R(1)
                   [] QuarterTurns(angle) = 2 -> R(0)
                   [] QuarterTurns(angle) = 3 -> R(-1)

\* a reflection without the case of a line that is a single point
reflect_without_point_case(px, py, line_p1x, line_p1y, line_p2x, line_p2y) ==
    IF line_p1x = line_p2x
    THEN <<QSub(QMul(R(2), line_p1x), px), py>>
    ELSE <<px, QSub(QMul(R(2), line_p1y), py)>>

\* the pair <<x', y'>>
reflect_point_across_line(px, py, line_p1x, line_p1y, line_p2x, line_p2y) ==
    IF line_p1x = line_p2x /\ line_p1y = line_p2y THEN <<px, py>>
    ELSE IF line_p1x = line_p2x
         THEN <<QSub(QMul(R(2), line_p1x), px), py>>
    ELSE IF line_p1y = line_p2y
         THEN <<px, QSub(QMul(R(2), line_p1y), py)>>
    ELSE LET m == QDiv(QSub(line_p2y, line_p1y), QSub(line_p2x, line_p1x))
             c == QSub(line_p1y, QMul(m, line_p1x))
             mm == QMul(m, m)
             denom == QAdd(R(1), mm)
             twom == QMul(R(2), m)
         IN  << QDiv(QSub(QAdd(QMul(px, QSub(R(1), mm)), QMul(twom, py)),
                          QMul(twom, c)), denom),
                QDiv(QAdd(QAdd(QMul(py, QSub(mm, R(1))), QMul(twom, px)),
                          QMul(R(2), c)), denom) >>

\* rotation of the point (px, py) about (cx, cy)
RotatePoint(px, py, t) ==
    LET tx == QSub(px, t.cx)
        ty == QSub(py, t.cy)
        co == CosDeg(t.angle)
        si == SinDeg(t.angle)
    IN  << QAdd(QSub(QMul(tx, co), QMul(ty, si)), t.cx),
           QAdd(QAdd(QMul(tx, si), QMul(ty, co)), t.cy) >>

\* scaling of the point (px, py) about (fx, fy)
ScalePoint(px, py, t) ==
    << QAdd(QMul(QSub(px, t.fx), t.sx), t.fx),
       QAdd(QMul(QSub(py, t.fy), t.sy), t.fy) >>

ApplyTranslate(type, p, t) ==
    IF type = "line"
    THEN [p EXCEPT !.x1 = QAdd(@, t.dx), !.y1 = QAdd(@, t.dy),
                   !.x2 = QAdd(@, t.dx), !.y2 = QAdd(@, t.dy)]
    ELSE IF type \in {"circle", "ellipse"}
    THEN [p EXCEPT !.xc = QAdd(@, t.dx), !.yc = QAdd(@, t.dy)]
    ELSE p

ApplyRotate(type, p, t) ==
    IF type = "line"
    THEN LET a == RotatePoint(p.x1, p.y1, t)
             b == RotatePoint(p.x2, p.y2, t)
         IN  [p EXCEPT !.x1 = a[1], !.y1 = a[2], !.x2 = b[1], !.y2 = b[2]]
    ELSE IF type \in {"circle", "ellipse"}
    THEN LET c == RotatePoint(p.xc, p.yc, t)
         IN  [p EXCEPT !.xc = c[1], !.yc = c[2]]
    ELSE p

ApplyScale(type, p, t) ==
    IF type = "line"
    THEN LET a == ScalePoint(p.x1, p.y1, t)
             b == ScalePoint(p.x2, p.y2, t)
         IN  [p EXCEPT !.x1 = a[1], !.y1 = a[2], !.x2 = b[1], !.y2 = b[2]]
    ELSE IF type = "circle"
    THEN [p EXCEPT !.r = QMul(@, t.sx)]
    ELSE IF type = "ellipse"
    THEN [p EXCEPT !.rx = QMul(@, t.sx), !.ry = QMul(@, t.sy)]
    ELSE p

\* a reflection that sends every point to the negative side of the axis
ApplyReflectAbs(type, p, t) ==
    IF type = "line"
    THEN IF t.axis = "y" THEN [p EXCEPT !.x1 = QNeg(QAbs(@)), !.x2 = QNeg(QAbs(@))]
         ELSE [p EXCEPT !.y1 = QNeg(QAbs(@)), !.y2 = QNeg(QAbs(@))]
    ELSE IF t.axis = "y" THEN [p EXCEPT !.xc = QNeg(QAbs(@))]
         ELSE [p EXCEPT !.yc = QNeg(QAbs(@))]

ApplyReflect(type, p, t) ==
    IF type = "line"
    THEN IF t.axis = "x" THEN [p EXCEPT !.y1 = QNeg(@), !.y2 = QNeg(@)]
         ELSE IF t.axis = "y" THEN [p EXCEPT !.x1 = QNeg(@), !.x2 = QNeg(@)]
         ELSE IF t.axis = "origin"
         THEN [p EXCEPT !.x1 = QNeg(@), !.y1 = QNeg(@),
                        !.x2 = QNeg(@), !.y2 = QNeg(@)]
         ELSE p
    ELSE IF type \in {"circle", "ellipse"}
    THEN IF t.axis = "x" THEN [p EXCEPT !.yc = QNeg(@)]
         ELSE IF t.axis = "y" THEN [p EXCEPT !.xc = QNeg(@)]
         ELSE IF t.axis = "origin" THEN [p EXCEPT !.xc = QNeg(@), !.yc = QNeg(@)]
         ELSE p
    ELSE p

\* line_p1 and line_p2 are unpacked, be they tuples or (after a load) lists
ApplyReflectLine(type, p, t) ==
    LET p1 == t.line_p1.items
        p2 == t.line_p2.items
    IN  IF type = "line"
        THEN LET a == reflect_point_across_line(p.x1, p.y1, p1[1], p1[2], p2[1], p2[2])
                 b == reflect_point_across_line(p.x2, p.y2, p1[1], p1[2], p2[1], p2[2])
             IN  [p EXCEPT !.x1 = a[1], !.y1 = a[2], !.x2 = b[1], !.y2 = b[2]]
        ELSE IF type \in {"circle", "ellipse"}
        THEN LET c == reflect_point_across_line(p.xc, p.yc, p1[1], p1[2], p2[1], p2[2])
             IN  [p EXCEPT !.xc = c[1], !.yc = c[2]]
        ELSE p

\* the body of the loop over obj["transformations"], for one record t
ApplyRecord(type, p, t) ==
    IF t.type = "translate" THEN ApplyTranslate(type, p, t)
    ELSE IF t.type = "rotate" THEN ApplyRotate(type, p, t)
    ELSE IF t.type = "scale" THEN ApplyScale(type, p, t)
    ELSE IF t.type = "reflect" THEN ApplyReflect(type, p, t)
    ELSE IF t.type = "reflect_line" THEN ApplyReflectLine(type, p, t)
    ELSE p

\* a loop that takes the translate records of the list before the others
IsTranslate(t) == t.type = "translate"
NotTranslate(t) == t.type # "translate"
RECURSIVE FoldTranslateFirst(_, _, _, _)
FoldTranslateFirst(type, p, ts, i) ==
    LET rest == SubSeq(ts, i, Len(ts))
        sorted == SelectSeq(rest, IsTranslate) \o SelectSeq(rest, NotTranslate)
    IN  IF i > Len(ts) THEN p
        ELSE IF sorted = rest
        THEN FoldTranslateFirst(type, ApplyRecord(type, p, ts[i]), ts, i + 1)
        ELSE FoldTranslateFirst(type, p, sorted, 1)

\* the loop "for transform in obj["transformations"]", from record i on
RECURSIVE FoldRecords(_, _, _, _)
FoldRecords(type, p, ts, i) ==
    IF i > Len(ts) THEN p
    ELSE FoldRecords(type, ApplyRecord(type, p, ts[i]), ts, i + 1)

\* dict.copy(): a new dict; a dict that is not copied is the same object (shared)
DictShared(d) == [shared |-> TRUE, val |-> d]
DictCopy(d) == [shared |-> FALSE, val |-> d]

\* The call apply_transformations(obj): ret is the returned dict, obj is the
\* object after the call (every write goes to transformed_params, which is
\* obj["params"] itself when the two are one dict), and fresh says that the
\* returned dict is not the dict stored in obj.
ApplyReturn(obj, shared, final) ==
    [ret |-> final, fresh |-> ~shared,
     obj |-> IF shared THEN [obj EXCEPT !.params = final] ELSE obj]

ApplyLoop(obj, transformed_params) ==
    ApplyReturn(obj, transformed_params.shared,
                FoldRecords(obj.type, transformed_params.val, obj.transformations, 1))

apply_transformations(obj) == ApplyLoop(obj, DictCopy(obj.params))

----------------------------------------------------------------------------
(* File I/O *)

NoFile == [exists |-> FALSE, data |-> <<>>]
FileOf(data) == [exists |-> TRUE, data |-> data]

\* algo_name_map.get(f) of save_objects_to_file
algo_name_map_get(f) ==
    CASE f = dda_line -> "dda_line"
      [] f = bresenham_line -> "bresenham_line"
      [] f = symmetrical_dda_line -> "symmetrical_dda_line"
      [] f = draw_circle -> "draw_circle"
      [] f = draw_ellipse -> "draw_ellipse"
      [] OTHER -> None

\* algo_map.get(name) of load_objects_from_file
\* a map without the entry "draw_ellipse"
algo_map_without_ellipse(name) ==
    CASE name = "dda_line" -> dda_line
      [] name = "bresenham_line" -> bresenham_line
      [] name = "symmetrical_dda_line" -> symmetrical_dda_line
      [] name = "draw_circle" -> draw_circle
      [] OTHER -> None

algo_map_get(name) ==
    CASE name = "dda_line" -> dda_line
      [] name = "bresenham_line" -> bresenham_line
      [] name = "symmetrical_dda_line" -> symmetrical_dda_line
      [] name = "draw_circle" -> draw_circle
      [] name = "draw_ellipse" -> draw_ellipse
      [] OTHER -> None

\* json.dump writes a tuple as an array, which json.load reads as a list
JsonArray(v) == List(v.items)

\* json.dump of one transformation record
JsonTransformation(t) ==
    IF t.type = "reflect_line"
    THEN [t EXCEPT !.line_p1 = JsonArray(@), !.line_p2 = JsonArray(@)]
    ELSE t

\* One object as save_objects_to_file writes it: temp_obj = obj.copy(), the
\* key "algorithm" set from the function, the key "algo" deleted, the color
\* made a list, and the whole dumped as JSON.
SerializeObject(obj) ==
    [id |-> obj.id, uid |-> obj.uid, type |-> obj.type,
     algorithm |-> algo_name_map_get(obj.algo),
     params |-> obj.params,
     color |-> IF obj.color.py = "tuple" THEN List(obj.color.items) ELSE obj.color,
     style |-> obj.style, thickness |-> obj.thickness, mask |-> obj.mask,
     transformations |->
        [i \in 1..Len(obj.transformations) |-> JsonTransformation(obj.transformations[i])]]

\* save_objects_to_file(): the new content of DATA_FILE
save_objects_to_file(objects) ==
    FileOf([i \in 1..Len(objects) |-> SerializeObject(objects[i])])

\* One record of the file as load_objects_from_file keeps it
DeserializeObject(obj_data) ==
    [id |-> obj_data.id, uid |-> obj_data.uid, type |-> obj_data.type,
     algo |-> algo_map_get(obj_data.algorithm),
     algorithm |-> obj_data.algorithm,
     params |-> obj_data.params,
     color |-> IF obj_data.color.py = "list" THEN Tuple(obj_data.color.items)
               ELSE obj_data.color,
     style |-> obj_data.style, thickness |-> obj_data.thickness,
     mask |-> obj_data.mask,
     transformations |-> obj_data.transformations]

\* the loop of load_objects_from_file from record i on, objs and max_id so far
RECURSIVE LoadLoop(_, _, _, _)
LoadLoop(data, i, objs, max_id) ==
    IF i > Len(data) THEN [objects |-> objs, max_id |-> max_id]
    ELSE IF algo_map_get(data[i].algorithm) # None
         THEN LoadLoop(data, i + 1, Append(objs, DeserializeObject(data[i])),
                       IF data[i].id > max_id THEN data[i].id ELSE max_id)
         ELSE LoadLoop(data, i + 1, objs, max_id)

\* a load that always sets next_object_id to 0
load_next_id_zero(file) ==
    IF file.exists
    THEN [objects |-> LoadLoop(file.data, 1, <<>>, 0).objects, next_object_id |-> 0]
    ELSE [objects |-> <<>>, next_object_id |-> 0]

\* load_objects_from_file(): the new objects_to_draw and next_object_id
load_objects_from_file(file) ==
    IF file.exists
    THEN LET l == LoadLoop(file.data, 1, <<>>, 0)
         IN  [objects |-> l.objects, next_object_id |-> l.max_id + 1]
    ELSE [objects |-> <<>>, next_object_id |-> 0]

----------------------------------------------------------------------------
(* Helpers of the handlers *)

\* Python's round(n / d) for integers n and d > 0: halves go to the even side
PyRound(n, d) ==
    LET q == n \div d
        r == n % d
    IN  IF 2 * r < d THEN q
        ELSE IF 2 * r > d THEN q + 1
        ELSE IF q % 2 = 0 THEN q ELSE q + 1

\* int(math.sqrt(n)) for an integer n >= 0
RECURSIVE ISqrtBetween(_, _, _)
ISqrtBetween(n, lo, hi) ==
    \* lo * lo <= n < hi * hi
    IF hi - lo <= 1 THEN lo
    ELSE LET mid == (lo + hi) \div 2
         IN  IF mid * mid <= n THEN ISqrtBetween(n, mid, hi)
             ELSE ISqrtBetween(n, lo, mid)
ISqrt(n) == ISqrtBetween(n, 0, IF n < 46340 THEN n + 1 ELSE 46341)

\* a conversion that does not turn the Y axis
logical_to_screen_unflipped(lx, ly) == <<lx + MID_X, ly + MID_Y>>

screen_to_logical(sx, sy) == <<sx - MID_X, MID_Y - sy>>
logical_to_screen(lx, ly) == <<lx + MID_X, MID_Y - ly>>

\* next((obj for obj in objects if obj["id"] == id), None): its index, or 0
RECURSIVE IndexOfIdFrom(_, _, _)
IndexOfIdFrom(objects, id, i) ==
    IF i > Len(objects) THEN 0
    ELSE IF objects[i].id = id THEN i
    ELSE IndexOfIdFrom(objects, id, i + 1)
IndexOfId(objects, id) == IndexOfIdFrom(objects, id, 1)

\* The index in the store of the object a closure refers to, or 0 when that
\* object is no longer in the store (it was deleted while the dialog was open).
RECURSIVE IndexOfUidFrom(_, _, _)
IndexOfUidFrom(objects, uid, i) ==
    IF i > Len(objects) THEN 0
    ELSE IF objects[i].uid = uid THEN i
    ELSE IndexOfUidFrom(objects, uid, i + 1)
IndexOfUid(objects, uid) == IndexOfUidFrom(objects, uid, 1)

\* a filter that drops the first object as well
WithoutIdAndFirst(objects, id) ==
    IF objects = <<>> THEN <<>>
    ELSE [i \in 1..(Len(objects) - 1) |-> objects[i + 1]]

\* [obj for obj in objects if obj["id"] != id]
RECURSIVE WithoutId(_, _)
WithoutId(objects, id) ==
    IF objects = <<>> THEN <<>>
    ELSE IF Head(objects).id # id
         THEN <<Head(objects)>> \o WithoutId(Tail(objects), id)
         ELSE WithoutId(Tail(objects), id)

\* obj["transformations"].insert(0, t) on the object at index i
PrependTransformation(objects, i, t) ==
    IF i = 0 THEN objects
    ELSE [objects EXCEPT ![i].transformations = <<t>> \o @]

\* obj["transformations"].append(t) on the object at index i (0: an object
\* that is not in the store, whose change the store does not see)
AppendTransformation(objects, i, t) ==
    IF i = 0 THEN objects
    ELSE [objects EXCEPT ![i].transformations = Append(@, t)]

\* every object after a loop that calls apply_transformations(obj) on each
AfterApplyOnAll(objects) ==
    [i \in 1..Len(objects) |-> apply_transformations(objects[i]).obj]

NoCallback == [name |-> None, uid |-> 0, id |-> -1, arg |-> None]
Closure(name, obj, arg) == [name |-> name, uid |-> obj.uid, id |-> obj.id, arg |-> arg]

COLORS_BLUE == Tuple(<<R(0), R(0), R(1)>>)

----------------------------------------------------------------------------
(* Hit test of a selection click (mousePressEvent, MODE_SELECTING_OBJECT) *)

\* A sort key is float('inf') or |sqrt(a) - h| for rationals a >= 0 and h.
KeyInf == [inf |-> TRUE, a |-> R(0), h |-> R(0)]
Key(a, h) == [inf |-> FALSE, a |-> a, h |-> h]

QSq(a) == QMul(a, a)
QMax(a, b) == IF QLt(a, b) THEN b ELSE a
QSign(a) == IF a[1] > 0 THEN 1 ELSE IF a[1] < 0 THEN -1 ELSE 0

\* l < sqrt(a) - sqrt(b), for rationals a, b >= 0
RatLtSurdDiff(l, a, b) ==
    \* l + sqrt(b) < sqrt(a)
    IF QSign(l) < 0 /\ QLt(b, QSq(l)) THEN TRUE
    ELSE LET m == QSub(QSub(a, QSq(l)), b)       \* 2 l sqrt(b) < m ?
             lhs2 == QMul(R(4), QMul(QSq(l), b)) \* (2 l sqrt(b))^2
         IN  IF QSign(l) >= 0
             THEN QSign(m) > 0 /\ QLt(lhs2, QSq(m))
             ELSE QSign(m) >= 0 \/ QLt(QSq(m), lhs2)

\* l < sqrt(a) + sqrt(b), for rationals a, b >= 0
RatLtSurdSum(l, a, b) ==
    LET m == QSub(QSub(QSq(l), a), b)            \* l^2 < a + b + 2 sqrt(a b) ?
    IN  QSign(l) < 0 \/ QSign(m) < 0 \/ QLt(QSq(m), QMul(R(4), QMul(a, b)))

\* sqrt(a) + sqrt(b) < l, for rationals a, b >= 0
SurdSumLtRat(a, b, l) ==
    LET m == QSub(QSub(QSq(l), a), b)
    IN  QSign(l) > 0 /\ QSign(m) > 0 /\ QLt(QMul(R(4), QMul(a, b)), QSq(m))

\* k1 < k2 by squaring:
\*   (sqrt(a) - h)^2 < (sqrt(b) - k)^2  <=>  a + h^2 - b - k^2 < 2 h sqrt(a) - 2 k sqrt(b)
KeyLtBySquares(k1, k2) ==
    LET l == QSub(QAdd(k1.a, QSq(k1.h)), QAdd(k2.a, QSq(k2.h)))
        sa == QMul(R(4), QMul(QSq(k1.h), k1.a))   \* (2 h sqrt(a))^2
        sb == QMul(R(4), QMul(QSq(k2.h), k2.a))   \* (2 k sqrt(b))^2
    IN  IF QSign(k1.h) >= 0 /\ QSign(k2.h) >= 0 THEN RatLtSurdDiff(l, sa, sb)
        ELSE IF QSign(k1.h) >= 0 THEN RatLtSurdSum(l, sa, sb)
        ELSE IF QSign(k2.h) >= 0 THEN SurdSumLtRat(sa, sb, QNeg(l))
        ELSE RatLtSurdDiff(l, sb, sa)

\* Rational bounds of a key.  sqrt(a) is rational when numerator and
\* denominator of a are squares; otherwise it lies strictly between two
\* neighbours of the grid of step 1 / SqrtGrid.
IsSquare(a) == ISqrt(a[1]) * ISqrt(a[1]) = a[1] /\ ISqrt(a[2]) * ISqrt(a[2]) = a[2]
KeyBounds(k) ==
    IF IsSquare(k.a)
    THEN LET v == QAbs(QSub(Q(ISqrt(k.a[1]), ISqrt(k.a[2])), k.h))
         IN  [lo |-> v, hi |-> v, exact |-> TRUE]
    ELSE LET SqrtGrid == 16
             L == ISqrt((SqrtGrid * SqrtGrid * k.a[1]) \div k.a[2])
             lo == QSub(Q(L, SqrtGrid), k.h)
             hi == QSub(Q(L + 1, SqrtGrid), k.h)
         IN  IF QSign(lo) >= 0 THEN [lo |-> lo, hi |-> hi, exact |-> FALSE]
             ELSE IF QSign(hi) <= 0 THEN [lo |-> QNeg(hi), hi |-> QNeg(lo), exact |-> FALSE]
             ELSE [lo |-> R(0), hi |-> QMax(QNeg(lo), hi), exact |-> FALSE]

\* k1 < k2 for two sort keys, as the comparison of the two real numbers
KeyLt(k1, k2) ==
    IF k1.inf THEN FALSE
    ELSE IF k2.inf THEN TRUE
    ELSE IF k1 = k2 THEN FALSE
    ELSE LET b1 == KeyBounds(k1)
             b2 == KeyBounds(k2)
         IN  IF b1.exact /\ b2.exact THEN QLt(b1.lo, b2.lo)
             ELSE IF QLe(b1.hi, b2.lo) THEN TRUE
             ELSE IF QLe(b2.hi, b1.lo) THEN FALSE
             ELSE KeyLtBySquares(k1, k2)

\* sqrt(d2) <= b, for rationals d2 >= 0 and b
SqrtLe(d2, b) == QSign(b) >= 0 /\ QLe(d2, QSq(b))

\* a hit test against the whole line through the endpoints, without the clamp
LineHitDistanceUnclamped(ep, lx, ly, half, tol) ==
    LET line_dx == QSub(ep.x2, ep.x1)
        line_dy == QSub(ep.y2, ep.y1)
        point_dx == QSub(lx, ep.x1)
        point_dy == QSub(ly, ep.y1)
        length_sq == QAdd(QSq(line_dx), QSq(line_dy))
        t == QDiv(QAdd(QMul(point_dx, line_dx), QMul(point_dy, line_dy)), length_sq)
        d2 == IF length_sq = R(0)
              THEN QAdd(QSq(point_dx), QSq(point_dy))
              ELSE QAdd(QSq(QSub(lx, QAdd(ep.x1, QMul(t, line_dx)))),
                        QSq(QSub(ly, QAdd(ep.y1, QMul(t, line_dy)))))
    IN  IF SqrtLe(d2, QAdd(half, tol)) THEN Key(d2, half) ELSE KeyInf

\* current_obj_hit_distance of one object for a click at (lx, ly); ep is the
\* object's effective_params, half is (thickness - 1) / 2 and tol the tolerance
LineHitDistance(ep, lx, ly, half, tol) ==
    LET line_dx == QSub(ep.x2, ep.x1)
        line_dy == QSub(ep.y2, ep.y1)
        point_dx == QSub(lx, ep.x1)
        point_dy == QSub(ly, ep.y1)
        length_sq == QAdd(QSq(line_dx), QSq(line_dy))
        traw == QDiv(QAdd(QMul(point_dx, line_dx), QMul(point_dy, line_dy)), length_sq)
        t == QMax(R(0), IF QLt(R(1), traw) THEN R(1) ELSE traw)
        d2 == IF length_sq = R(0)
              THEN QAdd(QSq(point_dx), QSq(point_dy))
              ELSE QAdd(QSq(QSub(lx, QAdd(ep.x1, QMul(t, line_dx)))),
                        QSq(QSub(ly, QAdd(ep.y1, QMul(t, line_dy)))))
    IN  IF SqrtLe(d2, QAdd(half, tol)) THEN Key(d2, half) ELSE KeyInf

CircleHitDistance(ep, lx, ly, half, tol) ==
    LET d2 == QAdd(QSq(QSub(lx, ep.xc)), QSq(QSub(ly, ep.yc)))
        outer == QAdd(ep.r, half)
    IN  IF SqrtLe(d2, QAdd(outer, tol)) THEN Key(d2, outer) ELSE KeyInf

EllipseHitDistance(ep, lx, ly, half, tol) ==
    LET orx == QAdd(ep.rx, half)
        ory == QAdd(ep.ry, half)
        d2 == QAdd(QSq(QSub(lx, ep.xc)), QSq(QSub(ly, ep.yc)))
        nx == QDiv(QSub(lx, ep.xc), QAdd(orx, tol))
        ny == QDiv(QSub(ly, ep.yc), QAdd(ory, tol))
        big == QMax(R(1), QMax(orx, ory))
    IN  IF QSign(orx) > 0 /\ QSign(ory) > 0
        THEN IF QLe(QAdd(QSq(nx), QSq(ny)), R(1))
             THEN Key(QDiv(d2, QSq(big)), R(0))
             ELSE KeyInf
        ELSE IF SqrtLe(d2, tol) THEN Key(R(0), R(0)) ELSE KeyInf

HitDistanceOf(type, ep, lx, ly, half, tol) ==
    IF type = "line" THEN LineHitDistance(ep, lx, ly, half, tol)
    ELSE IF type = "circle" THEN CircleHitDistance(ep, lx, ly, half, tol)
    ELSE IF type = "ellipse" THEN EllipseHitDistance(ep, lx, ly, half, tol)
    ELSE KeyInf

HitDistance(obj, logical_x, logical_y) ==
    HitDistanceOf(obj.type, apply_transformations(obj).ret, R(logical_x), R(logical_y),
                  QDiv(QSub(R(obj.thickness), R(1)), R(2)), R(10))

\* a loop in which a later object of an equal key replaces the earlier one
RECURSIVE ClosestFromLastWins(_, _, _, _, _, _)
ClosestFromLastWins(objects, i, logical_x, logical_y, min_key, closest_obj_id) ==
    IF i > Len(objects) THEN closest_obj_id
    ELSE LET k == HitDistance(objects[i], logical_x, logical_y)
         IN  IF ~k.inf /\ ~KeyLt(min_key, k)
             THEN ClosestFromLastWins(objects, i + 1, logical_x, logical_y, k, objects[i].id)
             ELSE ClosestFromLastWins(objects, i + 1, logical_x, logical_y, min_key,
                                      closest_obj_id)

\* the loop over objects_to_draw from index i on: the final closest_obj_id
RECURSIVE ClosestFrom(_, _, _, _, _, _)
ClosestFrom(objects, i, logical_x, logical_y, min_key, closest_obj_id) ==
    IF i > Len(objects) THEN closest_obj_id
    ELSE LET k == HitDistance(objects[i], logical_x, logical_y)
         IN  IF KeyLt(k, min_key)
             THEN ClosestFrom(objects, i + 1, logical_x, logical_y, k, objects[i].id)
             ELSE ClosestFrom(objects, i + 1, logical_x, logical_y, min_key, closest_obj_id)

ClosestObjectId(objects, logical_x, logical_y) ==
    ClosestFrom(objects, 1, logical_x, logical_y, KeyInf, -1)

----------------------------------------------------------------------------
(* Inputs of the handlers *)

\* positions of a mouse press, in canvas pixels
RawClicks == {<<530, 330>>}

\* texts typed into the input dialog
AngleTexts == {"90", "abc"}
ScaleTexts == {"2", "abc"}
ReflectTexts == {"x", "y", "origin", "line", "abc"}
EditStyleTexts == {"1", "3", "4", "abc"}
ThicknessTexts == {"2", "0", "abc"}
MaskTexts == {"F0F0", "10000", "xyz"}
EditThicknessTexts == {"0", "2", "abc"}
EditMaskTexts == {"-1", "", "xyz"}

\* results of QColorDialog.getColor: None when the dialog is cancelled
ColorPicks == {None, "red"}
PickedColor(pick) == Tuple(<<R(1), R(0), R(0)>>)

\* float(text): ok is FALSE where Python raises ValueError
FloatOf(text) ==
    CASE text = "90" -> [ok |-> TRUE, val |-> R(90)]
      [] text = "180" -> [ok |-> TRUE, val |-> R(180)]
      [] text = "-90" -> [ok |-> TRUE, val |-> R(-90)]
      [] text = "2" -> [ok |-> TRUE, val |-> R(2)]
      [] text = "1" -> [ok |-> TRUE, val |-> R(1)]
      [] text = "3" -> [ok |-> TRUE, val |-> R(3)]
      [] text = "4" -> [ok |-> TRUE, val |-> R(4)]
      [] text = "0" -> [ok |-> TRUE, val |-> R(0)]
      [] text = "-1" -> [ok |-> TRUE, val |-> R(-1)]
      [] text = "0.5" -> [ok |-> TRUE, val |-> Q(1, 2)]
      [] text = "1.5" -> [ok |-> TRUE, val |-> Q(3, 2)]
      [] OTHER -> [ok |-> FALSE, val |-> R(0)]

\* int(text): ok is FALSE where Python raises ValueError
IntOfText(text) ==
    CASE text = "0" -> [ok |-> TRUE, val |-> 0]
      [] text = "2" -> [ok |-> TRUE, val |-> 2]
      [] text = "3" -> [ok |-> TRUE, val |-> 3]
      [] text = "-1" -> [ok |-> TRUE, val |-> -1]
      [] OTHER -> [ok |-> FALSE, val |-> 0]

\* int(text, 16): ok is FALSE where Python raises ValueError
HexOfText(text) ==
    CASE text = "0" -> [ok |-> TRUE, val |-> 0]
      [] text = "F0F0" -> [ok |-> TRUE, val |-> 61680]
      [] text = "FFFF" -> [ok |-> TRUE, val |-> 65535]
      [] text = "10000" -> [ok |-> TRUE, val |-> 65536]
      [] text = "-1" -> [ok |-> TRUE, val |-> -1]
      [] OTHER -> [ok |-> FALSE, val |-> 0]

\* text.isdigit() and int(text)
IsDigit(text) == text \in {"0", "1", "2", "3", "4", "5", "90", "180"}
IntOf(text) ==
    CASE text = "0" -> 0 [] text = "1" -> 1 [] text = "2" -> 2 [] text = "3" -> 3
      [] text = "4" -> 4 [] text = "5" -> 5 [] text = "90" -> 90 [] text = "180" -> 180

----------------------------------------------------------------------------
(* Bounds of a behaviour *)

\* one more object may be created, one more record appended
Edits == Len(created) + n_appended + n_styled
MayCreate == Len(created) < MaxCreated /\ Edits < MaxEdits
MayAppend == n_appended < MaxTrans /\ Edits < MaxEdits

\* one more style may be chosen, for the next object or for a stored one
MayStyle == n_styled < MaxStyled /\ Edits < MaxEdits

----------------------------------------------------------------------------
(* The initial state and the start of the program *)

\* the module-level assignments of the canvas dimensions
CanvasAtRest ==
    /\ SCREEN_HEIGHT = INITIAL_WINDOW_HEIGHT
    /\ CANVAS_WIDTH = INITIAL_WINDOW_WIDTH - MENU_WIDTH_PX
    /\ MID_X = (INITIAL_WINDOW_WIDTH - MENU_WIDTH_PX) \div 2
    /\ MID_Y = INITIAL_WINDOW_HEIGHT \div 2

\* the module-level assignments, then MainWindow.__init__ with no DATA_FILE
Init ==
    /\ CanvasAtRest
    /\ objects_to_draw = <<>>
    /\ next_object_id = 0
    /\ current_mode = MODE_IDLE
    /\ current_algo_func = None
    /\ temp_points = <<>>
    /\ selected_object_id = -1
    /\ current_style_choice = STYLE_SOLID
    /\ current_thickness = 1
    /\ current_mask = 0
    /\ current_color = COLORS_BLUE
    /\ input_dialog_active = FALSE
    /\ input_dialog_callback = NoCallback
    /\ data_file = NoFile
    /\ running = TRUE
    /\ session = 1
    /\ n_styled = 0
    /\ created = <<>>
    /\ deleted = {}
    /\ n_appended = 0
    /\ h_pc = "idle"
    /\ h_in = <<>>
    /\ h_out = <<>>

\* A new run of the program after it has ended: the module-level assignments
\* and MainWindow.__init__, which ends with load_objects_from_file().
MainWindow_init ==
    /\ ~running
    /\ session < MaxSessions
    /\ LET l == load_objects_from_file(data_file)
       IN  /\ objects_to_draw' = l.objects
           /\ next_object_id' = l.next_object_id
    /\ current_mode' = MODE_IDLE
    /\ current_algo_func' = None
    /\ temp_points' = <<>>
    /\ selected_object_id' = -1
    /\ current_style_choice' = STYLE_SOLID
    /\ current_thickness' = 1
    /\ current_mask' = 0
    /\ current_color' = COLORS_BLUE
    /\ input_dialog_active' = FALSE
    /\ input_dialog_callback' = NoCallback
    /\ running' = TRUE
    /\ session' = session + 1
    /\ UNCHANGED <<data_file, n_styled, created, deleted, n_appended, harnessVars,
                   canvasVars>>

\* The process ends.  Nothing of its memory remains: until the next start
\* the variables of the globals hold their module-level values.
Exit ==
    /\ running' = FALSE
    /\ objects_to_draw' = <<>>
    /\ next_object_id' = 0
    /\ current_mode' = MODE_IDLE
    /\ current_algo_func' = None
    /\ temp_points' = <<>>
    /\ selected_object_id' = -1
    /\ current_style_choice' = STYLE_SOLID
    /\ current_thickness' = 1
    /\ current_mask' = 0
    /\ current_color' = COLORS_BLUE
    /\ input_dialog_active' = FALSE
    /\ input_dialog_callback' = NoCallback
    /\ SCREEN_HEIGHT' = INITIAL_WINDOW_HEIGHT
    /\ CANVAS_WIDTH' = INITIAL_WINDOW_WIDTH - MENU_WIDTH_PX
    /\ MID_X' = (INITIAL_WINDOW_WIDTH - MENU_WIDTH_PX) \div 2
    /\ MID_Y' = INITIAL_WINDOW_HEIGHT \div 2

\* closeEvent: the objects are saved and the window closes
closeEvent ==
    /\ running
    /\ data_file' = save_objects_to_file(objects_to_draw)
    /\ Exit
    /\ UNCHANGED <<historyVars, harnessVars>>

\* OpenGLCanvas.keyPressEvent for the Escape key: save and quit, unless the
\* input dialog is active
keyPressEvent ==
    /\ running
    /\ IF input_dialog_active
       THEN UNCHANGED <<storeVars, styleVars, uiVars, dialogVars, data_file, running,
                        canvasVars>>
       ELSE /\ data_file' = save_objects_to_file(objects_to_draw)
            /\ Exit
    /\ UNCHANGED <<historyVars, harnessVars>>

----------------------------------------------------------------------------
(* Menu buttons that set the mode *)

\* set_mode(mode, ...): the new values of the three globals it assigns
set_mode(mode) ==
    /\ current_mode' = mode
    /\ temp_points' = <<>>
    /\ selected_object_id' =
          IF mode \in {MODE_DRAWING_LINE_P1, MODE_DRAWING_CIRCLE_CENTER,
                       MODE_DRAWING_ELLIPSE_CENTER, MODE_IDLE, MODE_SELECTING_OBJECT}
          THEN -1 ELSE selected_object_id

\* buttons of which the circle button starts the clicks of a line
AlgoButtonsCrossed ==
    { <<dda_line, "line", MODE_DRAWING_LINE_P1>>,
      <<draw_circle, "circle", MODE_DRAWING_LINE_P1>>,
      <<draw_ellipse, "ellipse", MODE_DRAWING_ELLIPSE_CENTER>> }

\* the algorithm buttons: algo_func, obj_type, click_mode
AlgoButtons ==
    { <<dda_line, "line", MODE_DRAWING_LINE_P1>>,
      <<bresenham_line, "line", MODE_DRAWING_LINE_P1>>,
      <<symmetrical_dda_line, "line", MODE_DRAWING_LINE_P1>>,
      <<draw_circle, "circle", MODE_DRAWING_CIRCLE_CENTER>>,
      <<draw_ellipse, "ellipse", MODE_DRAWING_ELLIPSE_CENTER>> }

\* the button "Translate"
translate_btn ==
    /\ running
    /\ MayAppend
    /\ set_mode(MODE_APPLY_TRANSLATE)
    /\ UNCHANGED <<storeVars, styleVars, current_algo_func, dialogVars, data_file,
                   running, historyVars, harnessVars, canvasVars>>

\* the button "Select Object"
select_obj_btn ==
    /\ running
    /\ set_mode(MODE_SELECTING_OBJECT)
    /\ UNCHANGED <<storeVars, styleVars, current_algo_func, dialogVars, data_file,
                   running, historyVars, harnessVars, canvasVars>>

\* an algorithm button that keeps the pending click points
set_algorithm_keeps_points ==
    \E b \in AlgoButtons :
        /\ running
        /\ MayCreate
        /\ Len(objects_to_draw) < MaxObjects
        /\ current_algo_func' = b[1]
        /\ current_mode' = b[3]
        /\ UNCHANGED <<storeVars, styleVars, temp_points, selected_object_id, dialogVars,
                       data_file, running, historyVars, harnessVars, canvasVars>>

\* set_algorithm(algo_func, obj_type, click_mode) of an algorithm button.
\* selected_object_id is not among the globals the function declares, so its
\* assignment of -1 is to a local name and the global keeps its value.
set_algorithm ==
    \E b \in AlgoButtons :
        /\ running
        /\ MayCreate
        /\ Len(objects_to_draw) < MaxObjects
        /\ current_algo_func' = b[1]
        /\ temp_points' = <<>>
        /\ current_mode' = b[3]
        /\ UNCHANGED <<storeVars, styleVars, selected_object_id, dialogVars, data_file,
                       running, historyVars, harnessVars, canvasVars>>

----------------------------------------------------------------------------
(* The style buttons and their dialogs *)

\* a bound method of MainWindow as the callback of the input dialog
MethodCallback(name) == [NoCallback EXCEPT !.name = name]

\* set_style(style_enum) of a style button
set_style ==
    \E style_enum \in {STYLE_SOLID, STYLE_DOTTED, STYLE_THICK, STYLE_USER_DEFINED} :
        /\ running
        /\ MayStyle
        /\ n_styled' = n_styled + 1
        /\ current_style_choice' = style_enum
        /\ IF style_enum = STYLE_THICK
           THEN /\ input_dialog_active' = TRUE
                /\ input_dialog_callback' = MethodCallback("thickness_input_callback")
           ELSE IF style_enum = STYLE_USER_DEFINED
           THEN /\ input_dialog_active' = TRUE
                /\ input_dialog_callback' = MethodCallback("mask_input_callback")
           ELSE UNCHANGED dialogVars
        /\ UNCHANGED <<storeVars, current_thickness, current_mask, current_color, uiVars,
                       data_file, running, session, created, deleted, n_appended,
                       harnessVars, canvasVars>>

\* _thickness_input_callback(value_str): a positive integer is taken, an
\* integer that is not positive leaves current_thickness as it is, and a text
\* that is no integer sets it to 1
thickness_input(value_str) ==
    LET thickness_input == IntOfText(value_str)
    IN  /\ running
        /\ input_dialog_active
        /\ input_dialog_callback.name = "thickness_input_callback"
        /\ input_dialog_active' = FALSE
        /\ input_dialog_callback' = NoCallback
        /\ current_thickness' =
              IF thickness_input.ok
              THEN IF thickness_input.val > 0 THEN thickness_input.val
                   ELSE current_thickness
              ELSE 1
        /\ UNCHANGED <<storeVars, current_style_choice, current_mask, current_color,
                       uiVars, data_file, running, historyVars, harnessVars, canvasVars>>

\* Return in the thickness dialog of the button "Thick"
thickness_input_callback == \E value_str \in ThicknessTexts : thickness_input(value_str)

\* _mask_input_callback(value_str)
mask_input_callback ==
    \E value_str \in MaskTexts :
      LET mask == HexOfText(value_str)
      IN  /\ running
          /\ input_dialog_active
          /\ input_dialog_callback.name = "mask_input_callback"
          /\ input_dialog_active' = FALSE
          /\ input_dialog_callback' = NoCallback
          /\ current_mask' = IF mask.ok THEN mask.val ELSE 0
          /\ UNCHANGED <<storeVars, current_style_choice, current_thickness, current_color,
                         uiVars, data_file, running, historyVars, harnessVars, canvasVars>>

----------------------------------------------------------------------------
(* OpenGLCanvas.mousePressEvent *)

\* the dict a drawing click appends to objects_to_draw
NewObject(type, algorithm, params) ==
    [id |-> next_object_id, uid |-> Len(created) + 1, type |-> type,
     algo |-> current_algo_func, algorithm |-> algorithm, params |-> params,
     color |-> current_color, style |-> current_style_choice,
     thickness |-> current_thickness, mask |-> current_mask,
     transformations |-> <<>>]

\* {dda_line: "dda_line", ...}.get(current_algo_func, "unknown_line_algo")
LineAlgorithmName(f) ==
    CASE f = dda_line -> "dda_line"
      [] f = bresenham_line -> "bresenham_line"
      [] f = symmetrical_dda_line -> "symmetrical_dda_line"
      [] OTHER -> "unknown_line_algo"

\* the end of the three drawing branches: append, next id, save, back to idle
CreateObject(obj) ==
    /\ objects_to_draw' = Append(objects_to_draw, obj)
    /\ next_object_id' = next_object_id + 1
    /\ data_file' = save_objects_to_file(objects_to_draw')
    /\ temp_points' = <<>>
    /\ current_mode' = MODE_IDLE
    /\ created' = Append(created, obj.id)
    /\ UNCHANGED <<selected_object_id, running, n_appended>>

\* an exception that no handler catches ends the program, nothing is saved
Crash ==
    /\ running' = FALSE
    /\ UNCHANGED <<storeVars, current_mode, temp_points, selected_object_id,
                   data_file, created, n_appended>>

\* a transformation record appended by a canvas click, then save and deselect
ClickAppends(idx, t) ==
    /\ MayAppend
    /\ objects_to_draw' = AppendTransformation(objects_to_draw, idx, t)
    /\ data_file' = save_objects_to_file(objects_to_draw')
    /\ temp_points' = <<>>
    /\ selected_object_id' = -1
    /\ current_mode' = MODE_IDLE
    /\ n_appended' = n_appended + 1
    /\ UNCHANGED <<next_object_id, running, created>>

mousePressEvent ==
    \E raw \in RawClicks :
      LET snapped_x_screen == PyRound(raw[1], GRID_SPACING) * GRID_SPACING
          snapped_y_screen == PyRound(raw[2], GRID_SPACING) * GRID_SPACING
          logical == screen_to_logical(snapped_x_screen, snapped_y_screen)
          logical_x == logical[1]
          logical_y == logical[2]
          pts == Append(temp_points, <<logical_x, logical_y>>)
          idx == IndexOfId(objects_to_draw, selected_object_id)
      IN
      /\ running
      /\ ~input_dialog_active
      /\ UNCHANGED <<styleVars, current_algo_func, dialogVars, session, n_styled,
                     deleted,
                     harnessVars, canvasVars>>
      /\ IF /\ current_algo_func = None
            /\ current_mode \notin {MODE_SELECTING_OBJECT, MODE_APPLY_TRANSLATE,
                                    MODE_APPLY_REFLECT_LINE_P1, MODE_APPLY_REFLECT_LINE_P2}
         THEN /\ current_mode' = MODE_IDLE
              /\ UNCHANGED <<storeVars, temp_points, selected_object_id, data_file,
                             running, created, n_appended>>
         ELSE IF current_mode = MODE_DRAWING_LINE_P1
         THEN /\ temp_points' = pts
              /\ current_mode' = MODE_DRAWING_LINE_P2
              /\ UNCHANGED <<storeVars, selected_object_id, data_file, running,
                             created, n_appended>>
         ELSE IF current_mode = MODE_DRAWING_LINE_P2
         THEN IF Len(pts) < 2 THEN Crash
              ELSE CreateObject(NewObject("line", LineAlgorithmName(current_algo_func),
                       [x1 |-> R(pts[1][1]), y1 |-> R(pts[1][2]),
                        x2 |-> R(pts[2][1]), y2 |-> R(pts[2][2])]))
         ELSE IF current_mode = MODE_DRAWING_CIRCLE_CENTER
         THEN /\ temp_points' = pts
              /\ current_mode' = MODE_DRAWING_CIRCLE_RADIUS
              /\ UNCHANGED <<storeVars, selected_object_id, data_file, running,
                             created, n_appended>>
         ELSE IF current_mode = MODE_DRAWING_CIRCLE_RADIUS
         THEN LET cx == pts[1][1]
                  cy == pts[1][2]
                  r0 == ISqrt((logical_x - cx) * (logical_x - cx)
                              + (logical_y - cy) * (logical_y - cy))
                  r == IF r0 = 0 THEN 1 ELSE r0
              IN  CreateObject(NewObject("circle", "draw_circle",
                       [xc |-> R(cx), yc |-> R(cy), r |-> R(r)]))
         ELSE IF current_mode = MODE_DRAWING_ELLIPSE_CENTER
         THEN /\ temp_points' = pts
              /\ current_mode' = MODE_DRAWING_ELLIPSE_RX_POINT
              /\ UNCHANGED <<storeVars, selected_object_id, data_file, running,
                             created, n_appended>>
         ELSE IF current_mode = MODE_DRAWING_ELLIPSE_RX_POINT
         THEN /\ temp_points' = pts
              /\ current_mode' = MODE_DRAWING_ELLIPSE_RY_POINT
              /\ UNCHANGED <<storeVars, selected_object_id, data_file, running,
                             created, n_appended>>
         ELSE IF current_mode = MODE_DRAWING_ELLIPSE_RY_POINT
         THEN IF Len(pts) < 2 THEN Crash
              ELSE LET cx == pts[1][1]
                       cy == pts[1][2]
                       rx0 == Abs(pts[2][1] - cx)
                       ry0 == Abs(logical_y - cy)
                       rx_val == IF rx0 = 0 THEN 1 ELSE rx0
                       ry == IF ry0 = 0 THEN 1 ELSE ry0
                   IN  CreateObject(NewObject("ellipse", "draw_ellipse",
                            [xc |-> R(cx), yc |-> R(cy), rx |-> R(rx_val), ry |-> R(ry)]))
         ELSE IF current_mode = MODE_SELECTING_OBJECT
         THEN /\ selected_object_id' =
                    ClosestObjectId(objects_to_draw, logical_x, logical_y)
              /\ current_mode' = MODE_IDLE
              /\ objects_to_draw' = AfterApplyOnAll(objects_to_draw)
              /\ UNCHANGED <<next_object_id, temp_points, data_file, running,
                             created, n_appended>>
         ELSE IF selected_object_id # -1 /\ current_mode = MODE_APPLY_TRANSLATE
         THEN IF idx # 0
              THEN IF temp_points = <<>>
                   THEN /\ temp_points' = pts
                        /\ UNCHANGED <<storeVars, current_mode, selected_object_id,
                                       data_file, running, created, n_appended>>
                   ELSE ClickAppends(idx,
                            [type |-> "translate",
                             dx |-> R(logical_x - temp_points[1][1]),
                             dy |-> R(logical_y - temp_points[1][2])])
              ELSE /\ selected_object_id' = -1
                   /\ current_mode' = MODE_IDLE
                   /\ UNCHANGED <<storeVars, temp_points, data_file, running,
                                  created, n_appended>>
         ELSE IF selected_object_id # -1 /\ current_mode = MODE_APPLY_REFLECT_LINE_P1
         THEN /\ temp_points' = pts
              /\ current_mode' = MODE_APPLY_REFLECT_LINE_P2
              /\ UNCHANGED <<storeVars, selected_object_id, data_file, running,
                             created, n_appended>>
         ELSE IF selected_object_id # -1 /\ current_mode = MODE_APPLY_REFLECT_LINE_P2
         THEN IF idx # 0
              THEN IF Len(pts) < 2 THEN Crash
                   ELSE ClickAppends(idx,
                            [type |-> "reflect_line",
                             line_p1 |-> Tuple(<<R(pts[1][1]), R(pts[1][2])>>),
                             line_p2 |-> Tuple(<<R(pts[2][1]), R(pts[2][2])>>)])
              ELSE /\ selected_object_id' = -1
                   /\ current_mode' = MODE_IDLE
                   /\ UNCHANGED <<storeVars, temp_points, data_file, running,
                                  created, n_appended>>
         ELSE UNCHANGED <<storeVars, current_mode, temp_points, selected_object_id,
                          data_file, running, created, n_appended>>

----------------------------------------------------------------------------
(* The input dialog *)

\* activate_input_dialog(prompt, callback)
activate_input_dialog(callback) ==
    /\ input_dialog_active' = TRUE
    /\ input_dialog_callback' = callback

\* The dialog closes.  The attribute input_dialog_callback keeps the closure,
\* but nothing reads it while input_dialog_active is False
\* (handle_input_dialog_return_pressed returns at once, activate_input_dialog
\* overwrites it), so the state keeps no closure for a closed dialog.
close_input_dialog ==
    /\ input_dialog_active' = FALSE
    /\ input_dialog_callback' = NoCallback

\* handle_input_dialog_return_pressed up to the call of the callback `name`:
\* the dialog is active and is closed
ReturnPressed(name) ==
    /\ running
    /\ input_dialog_active
    /\ input_dialog_callback.name = name

\* The object a closure holds is the object of the store with its uid, or an
\* object that was deleted from the store after the closure was made; what
\* a handler writes to such an object the store never sees.
ClosureIndex == IndexOfUid(objects_to_draw, input_dialog_callback.uid)

\* the centre a rotation or a scaling about the object's own centre uses
CenterOf(type, effective_params) ==
    IF type \in {"circle", "ellipse"}
    THEN <<effective_params.xc, effective_params.yc>>
    ELSE IF type = "line"
    THEN << QDiv(QAdd(effective_params.x1, effective_params.x2), R(2)),
            QDiv(QAdd(effective_params.y1, effective_params.y2), R(2)) >>
    ELSE <<R(0), R(0)>>

\* the record a rotation or a scaling appends: the value the user gave (t)
\* and the centre c it is about
RecordAbout(t, c) ==
    IF t.type = "rotate"
    THEN [type |-> "rotate", angle |-> t.angle, cx |-> c[1], cy |-> c[2]]
    ELSE [type |-> "scale", sx |-> t.sx, sy |-> t.sy, fx |-> c[1], fy |-> c[2]]

\* a callback that takes the centre of the base parameters of the object
AppendRecordAboutBase(objects, i, a, t) ==
    [objects EXCEPT ![i] =
        [a.obj EXCEPT !.transformations =
            Append(@, RecordAbout(t, CenterOf(objects[i].type, objects[i].params)))]]

\* The store after a dialog callback has called apply_transformations on the
\* object at index i, with result a, and appended the record of t about the
\* centre of the effective parameters to its list.
AppendRecordAbout(objects, i, a, t) ==
    [objects EXCEPT ![i] =
        [a.obj EXCEPT !.transformations =
            Append(@, RecordAbout(t, CenterOf(objects[i].type, a.ret)))]]

AppendAboutCenter(objects, i, t) ==
    IF i = 0 THEN objects
    ELSE AppendRecordAbout(objects, i, apply_transformations(objects[i]), t)

\* eventFilter: the Escape key in the input dialog
eventFilter ==
    /\ running
    /\ input_dialog_active
    /\ close_input_dialog
    /\ IF /\ current_mode \in {MODE_DRAWING_LINE_P1, MODE_DRAWING_LINE_P2,
                               MODE_DRAWING_CIRCLE_CENTER, MODE_DRAWING_CIRCLE_RADIUS,
                               MODE_DRAWING_ELLIPSE_CENTER, MODE_DRAWING_ELLIPSE_RX_POINT,
                               MODE_DRAWING_ELLIPSE_RY_POINT, MODE_APPLY_TRANSLATE,
                               MODE_APPLY_REFLECT_LINE_P1, MODE_APPLY_REFLECT_LINE_P2}
          /\ temp_points # <<>>
       THEN /\ temp_points' = <<>>
            /\ selected_object_id' = -1
            /\ current_mode' = MODE_IDLE
       ELSE UNCHANGED <<temp_points, selected_object_id, current_mode>>
    /\ UNCHANGED <<storeVars, styleVars, current_algo_func, data_file, running,
                   historyVars, harnessVars, canvasVars>>

----------------------------------------------------------------------------
(* Rotate *)

\* the button "Rotate"
prompt_rotate ==
    LET idx == IndexOfId(objects_to_draw, selected_object_id)
    IN  /\ running
        /\ MayAppend
        /\ IF selected_object_id = -1
           THEN UNCHANGED <<selected_object_id, current_mode, dialogVars>>
           ELSE IF idx = 0
           THEN /\ selected_object_id' = -1
                /\ UNCHANGED <<current_mode, dialogVars>>
           ELSE /\ current_mode' = MODE_APPLY_ROTATE
                /\ activate_input_dialog(Closure("rotate_callback", objects_to_draw[idx], None))
                /\ UNCHANGED selected_object_id
        /\ UNCHANGED <<storeVars, styleVars, current_algo_func, temp_points, data_file,
                       running, historyVars, harnessVars, canvasVars>>

rotate_callback ==
    \E angle_str \in AngleTexts :
      LET angle == FloatOf(angle_str)
          t == [type |-> "rotate", angle |-> angle.val]
      IN  /\ ReturnPressed("rotate_callback")
          /\ close_input_dialog
          /\ IF angle.ok
             THEN /\ MayAppend
                  /\ objects_to_draw' =
                        AppendAboutCenter(objects_to_draw, ClosureIndex, t)
                  /\ data_file' = save_objects_to_file(objects_to_draw')
                  /\ n_appended' = n_appended + 1
             ELSE UNCHANGED <<objects_to_draw, data_file, n_appended>>
          /\ set_mode(MODE_IDLE)
          /\ UNCHANGED <<next_object_id, styleVars, current_algo_func, running,
                         session, n_styled, created, deleted, harnessVars, canvasVars>>

----------------------------------------------------------------------------
(* Scale *)

\* the button "Scale"
prompt_scale ==
    LET idx == IndexOfId(objects_to_draw, selected_object_id)
    IN  /\ running
        /\ MayAppend
        /\ IF selected_object_id = -1
           THEN UNCHANGED <<selected_object_id, current_mode, dialogVars>>
           ELSE IF idx = 0
           THEN /\ selected_object_id' = -1
                /\ UNCHANGED <<current_mode, dialogVars>>
           ELSE /\ current_mode' = MODE_APPLY_SCALE
                /\ activate_input_dialog(Closure("scale_x_callback", objects_to_draw[idx], None))
                /\ UNCHANGED selected_object_id
        /\ UNCHANGED <<storeVars, styleVars, current_algo_func, temp_points, data_file,
                       running, historyVars, harnessVars, canvasVars>>

\* scale_x_callback: a valid factor is kept in the widget's property
\* "scale_x_temp" and the dialog asks for the Y factor.  On an invalid factor
\* the assignment selected_object_id = -1 is to a local name; set_mode(MODE_IDLE)
\* then resets the global.
scale_x_callback ==
    \E scale_x_str \in ScaleTexts :
      /\ ReturnPressed("scale_x_callback")
      /\ IF FloatOf(scale_x_str).ok
         THEN /\ activate_input_dialog(
                    [input_dialog_callback EXCEPT !.name = "scale_y_callback",
                                                  !.arg = scale_x_str])
              /\ UNCHANGED <<current_mode, temp_points, selected_object_id>>
         ELSE /\ close_input_dialog
              /\ set_mode(MODE_IDLE)
      /\ UNCHANGED <<storeVars, styleVars, current_algo_func, data_file, running,
                     historyVars, harnessVars, canvasVars>>

scale_y_callback ==
    \E scale_y_str \in ScaleTexts :
      LET scale_x == FloatOf(input_dialog_callback.arg)
          scale_y == FloatOf(scale_y_str)
          t == [type |-> "scale", sx |-> scale_x.val, sy |-> scale_y.val]
      IN  /\ ReturnPressed("scale_y_callback")
          /\ close_input_dialog
          /\ IF scale_x.ok /\ scale_y.ok
             THEN /\ MayAppend
                  /\ objects_to_draw' =
                        AppendAboutCenter(objects_to_draw, ClosureIndex, t)
                  /\ data_file' = save_objects_to_file(objects_to_draw')
                  /\ n_appended' = n_appended + 1
             ELSE UNCHANGED <<objects_to_draw, data_file, n_appended>>
          /\ set_mode(MODE_IDLE)
          /\ UNCHANGED <<next_object_id, styleVars, current_algo_func, running,
                         session, n_styled, created, deleted, harnessVars, canvasVars>>

----------------------------------------------------------------------------
(* Reflect *)

\* the button "Reflect"
prompt_reflect ==
    LET idx == IndexOfId(objects_to_draw, selected_object_id)
    IN  /\ running
        /\ MayAppend
        /\ IF selected_object_id = -1
           THEN UNCHANGED <<selected_object_id, current_mode, dialogVars>>
           ELSE IF idx = 0
           THEN /\ selected_object_id' = -1
                /\ UNCHANGED <<current_mode, dialogVars>>
           ELSE /\ current_mode' = MODE_APPLY_REFLECT
                /\ activate_input_dialog(
                      Closure("reflect_option_callback", objects_to_draw[idx], None))
                /\ UNCHANGED selected_object_id
        /\ UNCHANGED <<storeVars, styleVars, current_algo_func, temp_points, data_file,
                       running, historyVars, harnessVars, canvasVars>>

\* choice_str.lower() as reflect_option_callback reads it
ReflectChoice(choice_str) ==
    CASE choice_str \in {"x", "X", "1"} -> "x"
      [] choice_str \in {"y", "Y", "2"} -> "y"
      [] choice_str \in {"origin", "ORIGIN", "3"} -> "origin"
      [] choice_str \in {"line", "LINE", "4"} -> "line"
      [] OTHER -> "invalid"

reflect_option_callback ==
    \E choice_str \in ReflectTexts :
      LET choice == ReflectChoice(choice_str)
      IN  /\ ReturnPressed("reflect_option_callback")
          /\ close_input_dialog
          /\ IF choice = "line"
             THEN /\ current_mode' = MODE_APPLY_REFLECT_LINE_P1
                  /\ temp_points' = <<>>
                  /\ selected_object_id' = input_dialog_callback.id
                  /\ UNCHANGED <<objects_to_draw, data_file, n_appended>>
             ELSE /\ IF choice \in {"x", "y", "origin"}
                     THEN /\ MayAppend
                          /\ objects_to_draw' =
                                AppendTransformation(objects_to_draw, ClosureIndex,
                                    [type |-> "reflect", axis |-> choice])
                          /\ n_appended' = n_appended + 1
                     ELSE UNCHANGED <<objects_to_draw, n_appended>>
                  /\ IF current_mode # MODE_APPLY_REFLECT_LINE_P1
                     THEN set_mode(MODE_IDLE)
                     ELSE UNCHANGED <<current_mode, temp_points, selected_object_id>>
                  /\ data_file' = save_objects_to_file(objects_to_draw')
          /\ UNCHANGED <<next_object_id, styleVars, current_algo_func, running,
                         session, n_styled, created, deleted, harnessVars, canvasVars>>

----------------------------------------------------------------------------
(* Edit and delete *)

\* a bake that does not clear the list
BakeKeepsList(a) == [a.obj EXCEPT !.params = a.ret]

\* the three lines of prompt_edit_object that bake the transformations of
\* obj_to_edit into its base parameters; a is the result of the call
\* apply_transformations(obj_to_edit)
BakeOf(a) ==
    [a.obj EXCEPT !.params = a.ret, !.transformations = <<>>]

Bake(obj_to_edit) == BakeOf(apply_transformations(obj_to_edit))

\* edit_color_callback_dialog: obj_to_edit["color"] = (r, g, b) if a colour is picked
EditColor(obj_to_edit, pick) ==
    IF pick # None THEN [obj_to_edit EXCEPT !.color = PickedColor(pick)]
    ELSE obj_to_edit

\* The button "Edit Selected": bake, then the modal colour dialog
\* (edit_color_callback_dialog), then the input dialog for the style.
prompt_edit_object ==
    \E pick \in ColorPicks :
      LET idx == IndexOfId(objects_to_draw, selected_object_id)
      IN  /\ running
          /\ IF selected_object_id = -1
             THEN UNCHANGED <<objects_to_draw, selected_object_id, dialogVars>>
             ELSE IF idx = 0
             THEN /\ selected_object_id' = -1
                  /\ UNCHANGED <<objects_to_draw, dialogVars>>
             ELSE /\ objects_to_draw' =
                        [objects_to_draw EXCEPT ![idx] = EditColor(Bake(@), pick)]
                  /\ activate_input_dialog(
                        Closure("edit_style_callback", objects_to_draw[idx], None))
                  /\ UNCHANGED selected_object_id
          /\ UNCHANGED <<next_object_id, styleVars, current_mode, current_algo_func,
                         temp_points, data_file, running, historyVars, harnessVars, canvasVars>>

\* obj_to_edit[field] = value on the object the closure holds
SetField(objects, i, field, value) ==
    IF i = 0 THEN objects
    ELSE [objects EXCEPT ![i] = [@ EXCEPT ![field] = value]]

\* the end of the edit callbacks: save and deselect
EditDone ==
    /\ data_file' = save_objects_to_file(objects_to_draw')
    /\ selected_object_id' = -1
    /\ close_input_dialog

edit_style_callback ==
    \E style_str \in EditStyleTexts :
      LET new_style == IntOf(style_str)
          valid == /\ IsDigit(style_str)
                   /\ new_style \in {STYLE_SOLID, STYLE_DOTTED, STYLE_THICK,
                                     STYLE_USER_DEFINED}
      IN  /\ ReturnPressed("edit_style_callback")
          /\ IF valid
             THEN /\ MayStyle
                  /\ n_styled' = n_styled + 1
                  /\ objects_to_draw' =
                        SetField(objects_to_draw, ClosureIndex, "style", new_style)
             ELSE UNCHANGED <<objects_to_draw, n_styled>>
          /\ IF valid /\ new_style = STYLE_THICK
             THEN /\ activate_input_dialog(
                        [input_dialog_callback EXCEPT !.name = "edit_thickness_callback"])
                  /\ UNCHANGED <<data_file, selected_object_id>>
             ELSE IF valid /\ new_style = STYLE_USER_DEFINED
             THEN /\ activate_input_dialog(
                        [input_dialog_callback EXCEPT !.name = "edit_mask_callback"])
                  /\ UNCHANGED <<data_file, selected_object_id>>
             ELSE EditDone
          /\ UNCHANGED <<next_object_id, styleVars, current_mode, current_algo_func,
                         temp_points, running, session, created, deleted, n_appended,
                         harnessVars, canvasVars>>

\* edit_thickness_callback(thick_str).  The object of the closure has the
\* style Thick, which edit_style_callback gave it before it opened this dialog;
\* an object that is no longer in the store keeps it.
edit_thickness_callback ==
    \E thick_str \in EditThicknessTexts :
      LET style == IF ClosureIndex # 0 THEN objects_to_draw[ClosureIndex].style
                   ELSE STYLE_THICK
      IN  /\ ReturnPressed("edit_thickness_callback")
          /\ objects_to_draw' =
                IF IsDigit(thick_str)
                THEN SetField(objects_to_draw, ClosureIndex, "thickness", IntOf(thick_str))
                ELSE objects_to_draw
          /\ IF style = STYLE_USER_DEFINED
             THEN /\ activate_input_dialog(
                        [input_dialog_callback EXCEPT !.name = "edit_mask_callback"])
                  /\ UNCHANGED <<data_file, selected_object_id>>
             ELSE EditDone
          /\ UNCHANGED <<next_object_id, styleVars, current_mode, current_algo_func,
                         temp_points, running, historyVars, harnessVars, canvasVars>>

\* edit_mask_callback(mask_str): an empty text and a text that is no
\* hexadecimal number keep the mask
edit_mask_callback ==
    \E mask_str \in EditMaskTexts :
      LET mask == HexOfText(mask_str)
      IN  /\ ReturnPressed("edit_mask_callback")
          /\ objects_to_draw' =
                IF mask_str # "" /\ mask.ok
                THEN SetField(objects_to_draw, ClosureIndex, "mask", mask.val)
                ELSE objects_to_draw
          /\ EditDone
          /\ UNCHANGED <<next_object_id, styleVars, current_mode, current_algo_func,
                         temp_points, running, historyVars, harnessVars, canvasVars>>

\* the button "Delete Selected"
delete_selected_object ==
    /\ running
    /\ IF selected_object_id # -1
       THEN /\ objects_to_draw' = WithoutId(objects_to_draw, selected_object_id)
            /\ selected_object_id' = -1
            /\ data_file' = save_objects_to_file(objects_to_draw')
            /\ deleted' = deleted \cup
                  { objects_to_draw[i].uid : i \in
                      { j \in 1..Len(objects_to_draw) :
                          objects_to_draw[j].id = selected_object_id } }
       ELSE UNCHANGED <<objects_to_draw, selected_object_id, data_file, deleted>>
    /\ UNCHANGED <<next_object_id, styleVars, current_mode, current_algo_func,
                   temp_points, dialogVars, running, session, n_styled, created,
                   n_appended,
                   harnessVars, canvasVars>>

----------------------------------------------------------------------------
(* The editor *)

Next ==
    \/ MainWindow_init
    \/ closeEvent
    \/ keyPressEvent
    \/ set_algorithm
    \/ select_obj_btn
    \/ translate_btn
    \/ mousePressEvent
    \/ prompt_rotate
    \/ rotate_callback
    \/ prompt_scale
    \/ scale_x_callback
    \/ scale_y_callback
    \/ prompt_reflect
    \/ reflect_option_callback
    \/ prompt_edit_object
    \/ edit_style_callback
    \/ edit_thickness_callback
    \/ edit_mask_callback
    \/ delete_selected_object
    \/ eventFilter

Spec == Init /\ [][Next]_vars

\* The handlers that draw, select, edit and delete objects, with the style
\* buttons and their dialogs; the buttons of the transformations are not pressed.
NextDraw ==
    \/ MainWindow_init
    \/ closeEvent
    \/ keyPressEvent
    \/ set_algorithm
    \/ set_style
    \/ thickness_input_callback
    \/ mask_input_callback
    \/ select_obj_btn
    \/ mousePressEvent
    \/ prompt_edit_object
    \/ edit_style_callback
    \/ edit_thickness_callback
    \/ edit_mask_callback
    \/ delete_selected_object
    \/ eventFilter

SpecDraw == Init /\ [][NextDraw]_vars

----------------------------------------------------------------------------
(* apply_transformations as a function: it is called on one object *)

\* sequences over S of length at most n
SeqsUpTo(S, n) == UNION { [1..k -> S] : k \in 0..n }

\* transformation records as the handlers append them, and (the last) a
\* reflect_line record as a load leaves it
HarnessRecords ==
    { [type |-> "translate", dx |-> R(20), dy |-> R(-10)],
      [type |-> "translate", dx |-> R(0), dy |-> R(40)],
      [type |-> "rotate", angle |-> R(90), cx |-> R(0), cy |-> R(0)],
      [type |-> "rotate", angle |-> R(90), cx |-> R(10), cy |-> R(10)],
      [type |-> "scale", sx |-> R(2), sy |-> R(3), fx |-> R(10), fy |-> R(10)],
      [type |-> "reflect", axis |-> "x"],
      [type |-> "reflect", axis |-> "y"],
      [type |-> "reflect", axis |-> "origin"],
      [type |-> "reflect_line", line_p1 |-> Tuple(<<R(0), R(-10)>>),
                                line_p2 |-> Tuple(<<R(20), R(30)>>)],
      [type |-> "reflect_line", line_p1 |-> List(<<R(0), R(10)>>),
                                line_p2 |-> List(<<R(20), R(10)>>)] }

HarnessParams(type) ==
    CASE type = "line" -> [x1 |-> R(0), y1 |-> R(-10), x2 |-> R(20), y2 |-> R(30)]
      [] type = "circle" -> [xc |-> R(20), yc |-> R(30), r |-> R(5)]
      [] type = "ellipse" -> [xc |-> R(20), yc |-> R(30), rx |-> R(10), ry |-> R(5)]

HarnessObject(type, transformations) ==
    [id |-> 0, uid |-> 1, type |-> type,
     algo |-> CASE type = "line" -> dda_line
                [] type = "circle" -> draw_circle
                [] type = "ellipse" -> draw_ellipse,
     algorithm |-> CASE type = "line" -> "dda_line"
                     [] type = "circle" -> "draw_circle"
                     [] type = "ellipse" -> "draw_ellipse",
     params |-> HarnessParams(type), color |-> COLORS_BLUE, style |-> STYLE_SOLID,
     thickness |-> 1, mask |-> 0, transformations |-> transformations]

\* the globals as the module-level assignments leave them, no file, no history
EditorAtRest ==
    /\ objects_to_draw = <<>>
    /\ next_object_id = 0
    /\ current_mode = MODE_IDLE
    /\ current_algo_func = None
    /\ temp_points = <<>>
    /\ selected_object_id = -1
    /\ current_style_choice = STYLE_SOLID
    /\ current_thickness = 1
    /\ current_mask = 0
    /\ current_color = COLORS_BLUE
    /\ input_dialog_active = FALSE
    /\ input_dialog_callback = NoCallback
    /\ created = <<>>
    /\ deleted = {}
    /\ n_appended = 0
    /\ CanvasAtRest

InitApply ==
    /\ EditorAtRest
    /\ data_file = NoFile
    /\ running = TRUE
    /\ session = 1
    /\ n_styled = 0
    /\ h_pc = "call"
    /\ h_in \in { HarnessObject(type, ts) :
                    type \in {"line", "circle", "ellipse"},
                    ts \in SeqsUpTo(HarnessRecords, MaxLen) }
    /\ h_out = <<>>

\* the call apply_transformations(h_in)
call_apply_transformations ==
    /\ h_pc = "call"
    /\ h_out' = apply_transformations(h_in)
    /\ h_pc' = "returned"
    /\ UNCHANGED <<editorVars, h_in, canvasVars>>

NextApply == call_apply_transformations

SpecApply == InitApply /\ [][NextApply]_vars

\* C1: apply_transformations(obj) never changes the stored object: for every
\* object type and every transformation list, obj["params"] and
\* obj["transformations"] are the same after the call as before it, and the
\* effective parameters are returned as a separate copy (a dict that is not
\* the dict stored in the object).
C1_ApplyLeavesObject ==
    h_pc = "returned" =>
        /\ h_out.obj.params = h_in.params
        /\ h_out.obj.transformations = h_in.transformations
        /\ h_out.obj = h_in
        /\ h_out.fresh

\* a call on a list of two records has returned parameters that differ from
\* the base parameters
C1_Witness ==
    /\ h_pc = "returned"
    /\ Len(h_in.transformations) = 2
    /\ h_out.ret # h_in.params

\* C4: apply_transformations folds the records strictly in list order: the
\* result for a list of two records is the second record applied to the
\* result of the first, and for the same base parameters the lists
\* [Rotate(90 about c), Translate(dx, dy)] and [Translate(dx, dy),
\* Rotate(90 about c)] give different effective parameters whenever dx and dy
\* are non-zero.
C4_OrderSensitive ==
    (h_pc = "returned" /\ Len(h_in.transformations) = 2) =>
        LET first == h_in.transformations[1]
            second == h_in.transformations[2]
            swapped == [h_in EXCEPT !.transformations = <<second, first>>]
        IN  /\ h_out.ret = ApplyRecord(h_in.type,
                               ApplyRecord(h_in.type, h_in.params, first), second)
            /\ (/\ first.type = "rotate" /\ first.angle = R(90)
                /\ second.type = "translate"
                /\ second.dx # R(0) /\ second.dy # R(0))
               => h_out.ret # apply_transformations(swapped).ret

\* a call on a line with the list [Rotate(90), Translate(20, -10)] has returned
C4_Witness ==
    /\ h_pc = "returned"
    /\ h_in.type = "line"
    /\ Len(h_in.transformations) = 2
    /\ h_in.transformations[1].type = "rotate"
    /\ h_in.transformations[2] = [type |-> "translate", dx |-> R(20), dy |-> R(-10)]

----------------------------------------------------------------------------
(* load_objects_from_file as a function: the program starts on a given file *)

\* the five names of algo_map
RecognizedNames ==
    {"dda_line", "bresenham_line", "symmetrical_dda_line", "draw_circle", "draw_ellipse"}

\* algorithm names of the records of a file: the five, the name the editor
\* writes for a line of no known algorithm, and null
FileAlgorithmNames == RecognizedNames \cup {"unknown_line_algo", None}

\* one record of a file
FileRecord(id, algorithm) ==
    LET type == CASE algorithm = "draw_circle" -> "circle"
                  [] algorithm = "draw_ellipse" -> "ellipse"
                  [] OTHER -> "line"
    IN  [id |-> id, uid |-> id + 1, type |-> type, algorithm |-> algorithm,
         params |-> HarnessParams(type), color |-> List(COLORS_BLUE.items),
         style |-> STYLE_SOLID, thickness |-> 1, mask |-> 0,
         transformations |-> IF id = 1 THEN <<[type |-> "reflect", axis |-> "x"]>>
                             ELSE <<>>]

FileRecords == { FileRecord(id, algorithm) : id \in 0..2, algorithm \in FileAlgorithmNames }

\* DATA_FILE does not exist, or holds up to MaxFileLen records
HarnessFiles == {NoFile} \cup { FileOf(data) : data \in SeqsUpTo(FileRecords, MaxFileLen) }

\* the program is not running and DATA_FILE is one of the files
InitLoad ==
    /\ EditorAtRest
    /\ data_file \in HarnessFiles
    /\ running = FALSE
    /\ session = 0
    /\ n_styled = 0
    /\ h_pc = "idle"
    /\ h_in = <<>>
    /\ h_out = <<>>

NextLoad == MainWindow_init

SpecLoad == InitLoad /\ [][NextLoad]_vars

HasRecognizedName(obj_data) == obj_data.algorithm \in RecognizedNames

\* C9: load keeps exactly the records whose algorithm name is one of the five
\* recognized names, in file order; a record with any other name is dropped
\* without failing the load and without affecting the records after it.
C9_LoadKeepsRecognized ==
    (running /\ data_file.exists) =>
        LET kept == SelectSeq(data_file.data, HasRecognizedName)
        IN  /\ Len(objects_to_draw) = Len(kept)
            /\ \A i \in 1..Len(kept) :
                  /\ objects_to_draw[i].id = kept[i].id
                  /\ objects_to_draw[i].type = kept[i].type
                  /\ objects_to_draw[i].algorithm = kept[i].algorithm
                  /\ objects_to_draw[i].params = kept[i].params
                  /\ objects_to_draw[i].transformations = kept[i].transformations

\* a file of three records, the middle one of an unrecognized name, is loaded:
\* the first and the third record are in the store
C9_Witness ==
    /\ running
    /\ data_file.exists
    /\ Len(data_file.data) = 3
    /\ data_file.data[1].algorithm = "draw_ellipse"
    /\ data_file.data[2].algorithm = "unknown_line_algo"
    /\ data_file.data[3].algorithm = "dda_line"
    /\ Len(objects_to_draw) = 2
    /\ objects_to_draw[2].id = data_file.data[3].id

----------------------------------------------------------------------------
(* Properties of the editor *)

\* the ids of the objects of a store, in order
Ids(objects) == [i \in 1..Len(objects) |-> objects[i].id]

RECURSIVE MaxOf(_)
MaxOf(ids) ==
    IF Len(ids) = 1 THEN ids[1]
    ELSE IF ids[1] > MaxOf(Tail(ids)) THEN ids[1] ELSE MaxOf(Tail(ids))

\* the effective parameters of an object
EffectiveParams(obj) == apply_transformations(obj).ret

\* C2: baking an object (Edit Selected) sets its base parameters to the
\* effective parameters it had just before the bake and empties its
\* transformation list, so its effective parameters are the same right after
\* the bake as right before; a bake of an object whose list is empty (a second
\* bake with nothing appended in between) changes neither base nor effective
\* parameters.
C2_BakeKeepsEffective ==
    [][ LET idx == IndexOfId(objects_to_draw, selected_object_id)
        IN  (prompt_edit_object /\ selected_object_id # -1 /\ idx # 0) =>
              LET before == objects_to_draw[idx]
                  after == objects_to_draw'[idx]
              IN  /\ after.params = EffectiveParams(before)
                  /\ after.transformations = <<>>
                  /\ EffectiveParams(after) = EffectiveParams(before)
                  /\ before.transformations = <<>> =>
                        /\ after.params = before.params
                        /\ EffectiveParams(after) = EffectiveParams(before) ]_vars

\* the only object ever created got two records, and a bake has moved them
\* into its base parameters: the dialog of the edit is open
C2_Witness ==
    /\ input_dialog_active
    /\ input_dialog_callback.name = "edit_style_callback"
    /\ Len(created) = 1
    /\ n_appended = 2
    /\ Len(objects_to_draw) = 1
    /\ objects_to_draw[1].transformations = <<>>
    /\ objects_to_draw[1].type = "circle"
    /\ objects_to_draw[1].params.r # R(1)

\* C3: in every step of create, translate, rotate, scale, reflect, bake,
\* delete and save operations, the transformation list of each object that
\* stays in the store stays the same, or gains exactly one record at its end
\* with all earlier records unchanged and in the same order, or is emptied,
\* and it is emptied only by a bake.
C3_RecordsImmutable ==
    [][ (running /\ running') =>
          \A i \in 1..Len(objects_to_draw), j \in 1..Len(objects_to_draw') :
            objects_to_draw[i].uid = objects_to_draw'[j].uid =>
              LET ts == objects_to_draw[i].transformations
                  ts2 == objects_to_draw'[j].transformations
              IN  \/ ts2 = ts
                  \/ /\ Len(ts2) = Len(ts) + 1
                     /\ SubSeq(ts2, 1, Len(ts)) = ts
                  \/ /\ ts2 = <<>>
                     /\ prompt_edit_object
                     /\ objects_to_draw[i].id = selected_object_id ]_vars

\* an object of the store has a list of two different records
C3_Witness ==
    \E i \in 1..Len(objects_to_draw) :
        /\ Len(objects_to_draw[i].transformations) = 2
        /\ objects_to_draw[i].transformations[1] # objects_to_draw[i].transformations[2]

\* C5: in every state reachable by creations, transformations, bakes,
\* deletions, saves and loads of a saved file, no two objects of the store
\* have the same id, and every id is a non-negative integer.
C5_IdsUnique ==
    /\ \A i, j \in 1..Len(objects_to_draw) :
          i # j => objects_to_draw[i].id # objects_to_draw[j].id
    /\ \A i \in 1..Len(objects_to_draw) : objects_to_draw[i].id \in Nat

\* after a deletion and a load of the saved file, a third object was created
\* and the store holds two objects
C5_Witness ==
    /\ running
    /\ session = 2
    /\ Len(created) = 3
    /\ deleted # {}
    /\ Len(objects_to_draw) = 2
    /\ objects_to_draw[2].uid = 3

\* C6: an id is never reused, even after deletion: an id once given to an
\* object is never given to an object created later, also when the deleted
\* object had the highest id and the store is reloaded before the next creation.
C6_IdsNeverReused ==
    \A i, j \in 1..Len(created) : i # j => created[i] # created[j]

\* C7: after a load, the next id to be assigned is max(ids of the loaded
\* objects) + 1 when at least one object was loaded, and 0 when the loaded
\* store is empty (the file is missing, or holds no object, or every record
\* was dropped).
C7_NextIdAfterLoad ==
    (running /\ session = 1) =>
        next_object_id = IF objects_to_draw = <<>> THEN 0
                         ELSE MaxOf(Ids(objects_to_draw)) + 1

\* the store a save followed by a load gives for the store objects
SavedAndLoaded(objects) ==
    load_objects_from_file(save_objects_to_file(objects)).objects

\* C8: save followed by load is a round trip: for every store reachable
\* through the editor the loaded store has the same objects in the same order
\* with identical ids, types, algorithm bindings, base parameters and
\* transformation lists.
C8_SaveLoadRoundTrip ==
    running =>
        LET loaded == SavedAndLoaded(objects_to_draw)
        IN  /\ Len(loaded) = Len(objects_to_draw)
            /\ \A i \in 1..Len(loaded) :
                  /\ loaded[i].id = objects_to_draw[i].id
                  /\ loaded[i].type = objects_to_draw[i].type
                  /\ loaded[i].algo = objects_to_draw[i].algo
                  /\ loaded[i].params = objects_to_draw[i].params
                  /\ loaded[i].transformations = objects_to_draw[i].transformations

\* the objects of a store other than those of the given id, in order
OthersThan(objects, id) ==
    LET keep == { i \in 1..Len(objects) : objects[i].id # id }
        nth[k \in 0..Len(objects)] ==
            IF k = 0 THEN 0
            ELSE CHOOSE i \in keep : i > nth[k - 1] /\ \A j \in keep : j > nth[k - 1] => i <= j
    IN  [k \in 1..Cardinality(keep) |-> objects[nth[k]]]

ScaledAbout(v, f, s) == QAdd(f, QMul(QSub(v, f), s))

\* C11: a scale record scales every point field of the object relative to its
\* fixed point: both endpoints of a line and the center of a circle or an
\* ellipse become (fx + (x - fx) * sx, fy + (y - fy) * sy), for any fixed
\* point, also one that is not the object's own center.
C11_ScaleEveryPoint ==
    (/\ h_pc = "returned"
     /\ Len(h_in.transformations) = 1
     /\ h_in.transformations[1].type = "scale") =>
        LET t == h_in.transformations[1]
            p == h_in.params
            q == h_out.ret
        IN  IF h_in.type = "line"
            THEN /\ q.x1 = ScaledAbout(p.x1, t.fx, t.sx)
                 /\ q.y1 = ScaledAbout(p.y1, t.fy, t.sy)
                 /\ q.x2 = ScaledAbout(p.x2, t.fx, t.sx)
                 /\ q.y2 = ScaledAbout(p.y2, t.fy, t.sy)
            ELSE /\ q.xc = ScaledAbout(p.xc, t.fx, t.sx)
                 /\ q.yc = ScaledAbout(p.yc, t.fy, t.sy)

----------------------------------------------------------------------------
(* The editor started on a file that an earlier run has saved *)

\* an object as the editor makes it from clicks on the grid, with the records
\* an earlier run has appended
EditedObject(type, params, transformations) ==
    [HarnessObject(type, transformations) EXCEPT !.params = params]

\* stores of one object whose effective center is not the center of its base
\* parameters
EditedStores ==
    { << EditedObject("circle", [xc |-> R(20), yc |-> R(-30), r |-> R(20)],
                      <<[type |-> "reflect", axis |-> "x"]>>) >>,
      << EditedObject("line", [x1 |-> R(20), y1 |-> R(-30), x2 |-> R(60), y2 |-> R(-30)],
                      <<[type |-> "reflect", axis |-> "x"]>>) >>,
      << EditedObject("ellipse", [xc |-> R(0), yc |-> R(10), rx |-> R(20), ry |-> R(20)],
                      <<[type |-> "translate", dx |-> R(20), dy |-> R(20)]>>) >> }

\* MainWindow.__init__ has loaded the file of one of the stores
InitEdit ==
    /\ \E store \in EditedStores :
          /\ data_file = save_objects_to_file(store)
          /\ objects_to_draw = load_objects_from_file(save_objects_to_file(store)).objects
          /\ next_object_id =
                load_objects_from_file(save_objects_to_file(store)).next_object_id
    /\ current_mode = MODE_IDLE
    /\ current_algo_func = None
    /\ temp_points = <<>>
    /\ selected_object_id = -1
    /\ current_style_choice = STYLE_SOLID
    /\ current_thickness = 1
    /\ current_mask = 0
    /\ current_color = COLORS_BLUE
    /\ input_dialog_active = FALSE
    /\ input_dialog_callback = NoCallback
    /\ CanvasAtRest
    /\ running = TRUE
    /\ session = 1
    /\ n_styled = 0
    /\ created = <<0>>
    /\ deleted = {}
    /\ n_appended = 0
    /\ h_pc = "idle"
    /\ h_in = <<>>
    /\ h_out = <<>>

SpecEdit == InitEdit /\ [][Next]_vars

\* the effective center of an object: the center of a circle or an ellipse,
\* the midpoint of the endpoints of a line
EffectiveCenter(obj) ==
    LET e == EffectiveParams(obj)
    IN  IF obj.type = "line"
        THEN <<QDiv(QAdd(e.x1, e.x2), R(2)), QDiv(QAdd(e.y1, e.y2), R(2))>>
        ELSE <<e.xc, e.yc>>

\* the center (fixed point) a rotate (scale) record stores
StoredCenter(t) == IF t.type = "rotate" THEN <<t.cx, t.cy>> ELSE <<t.fx, t.fy>>

\* C12: a rotate (scale) record appended through the editor stores as its
\* center (fixed point) the effective center the object has at the moment of
\* the append, computed from the base parameters and all records appended
\* before it; records appended later never change that stored center.
C12_CenterCaptured ==
    [][ \A i \in 1..Len(objects_to_draw), j \in 1..Len(objects_to_draw') :
          (running /\ running' /\ objects_to_draw[i].uid = objects_to_draw'[j].uid) =>
            LET ts == objects_to_draw[i].transformations
                ts2 == objects_to_draw'[j].transformations
            IN  /\ (/\ Len(ts2) = Len(ts) + 1
                    /\ ts2[Len(ts2)].type \in {"rotate", "scale"}) =>
                       StoredCenter(ts2[Len(ts2)]) = EffectiveCenter(objects_to_draw[i])
                /\ Len(ts2) > Len(ts) =>
                       \A k \in 1..Len(ts) :
                          ts[k].type \in {"rotate", "scale"} =>
                             /\ ts2[k].type = ts[k].type
                             /\ StoredCenter(ts2[k]) = StoredCenter(ts[k]) ]_vars

\* the circle with base center (20, -30) that was reflected to (20, 30) got a
\* rotate record about (20, 30), and a scale record after it
C12_Witness ==
    /\ Len(objects_to_draw) >= 1
    /\ objects_to_draw[1].type = "circle"
    /\ objects_to_draw[1].params.yc = R(-30)
    /\ Len(objects_to_draw[1].transformations) = 3
    /\ objects_to_draw[1].transformations[2].type = "rotate"
    /\ StoredCenter(objects_to_draw[1].transformations[2]) = <<R(20), R(30)>>
    /\ objects_to_draw[1].transformations[3].type = "scale"

\* the radii of the parameters of an object of the given type
RadiiOf(type, p) ==
    IF type = "circle" THEN <<p.r>>
    ELSE IF type = "ellipse" THEN <<p.rx, p.ry>>
    ELSE <<>>

\* the effective parameters of obj with only the first n records of its list
EffectiveAfter(obj, n) ==
    EffectiveParams([obj EXCEPT !.transformations = SubSeq(@, 1, n)])

\* C13: axis reflection is an involution: for each axis of x, y, origin and
\* each object type, a list that ends with the same reflect record twice gives
\* the effective parameters of the list without the two records, and a reflect
\* record leaves the radii r, rx, ry as they were before it.
C13_ReflectInvolution ==
    h_pc = "returned" =>
        LET ts == h_in.transformations
            n == Len(ts)
        IN  /\ (/\ n >= 2
                /\ ts[n].type = "reflect"
                /\ ts[n - 1] = ts[n]) => h_out.ret = EffectiveAfter(h_in, n - 2)
            /\ (/\ n >= 1
                /\ ts[n].type = "reflect") =>
                   RadiiOf(h_in.type, h_out.ret)
                      = RadiiOf(h_in.type, EffectiveAfter(h_in, n - 1))

\* a call on an ellipse whose list is a translation and then the reflection
\* about the origin twice has returned
C13_Witness ==
    /\ h_pc = "returned"
    /\ h_in.type = "ellipse"
    /\ Len(h_in.transformations) = 3
    /\ h_in.transformations[1].type = "translate"
    /\ h_in.transformations[2] = [type |-> "reflect", axis |-> "origin"]
    /\ h_in.transformations[3] = [type |-> "reflect", axis |-> "origin"]
    /\ h_out.ret = EffectiveAfter(h_in, 1)

----------------------------------------------------------------------------
(* reflect_point_across_line as a function *)

\* the state of the program while one of its functions is called
FunctionCalled ==
    /\ EditorAtRest
    /\ data_file = NoFile
    /\ running = TRUE
    /\ session = 1
    /\ n_styled = 0
    /\ h_out = <<>>

\* integer coordinates of the point and of the two points of the line
ReflectCoords == {-5, 0, 3, 4, 5}

InitReflect ==
    /\ FunctionCalled
    /\ h_pc = "call reflect_point_across_line"
    /\ h_in \in [px : {3, -5}, py : {4, 0},
                 line_p1x : ReflectCoords, line_p1y : ReflectCoords,
                 line_p2x : ReflectCoords, line_p2y : ReflectCoords]

\* the call reflect_point_across_line(px, py, line_p1x, line_p1y, line_p2x, line_p2y)
call_reflect_point_across_line ==
    /\ h_pc = "call reflect_point_across_line"
    /\ h_out' = reflect_point_across_line(R(h_in.px), R(h_in.py),
                                          R(h_in.line_p1x), R(h_in.line_p1y),
                                          R(h_in.line_p2x), R(h_in.line_p2y))
    /\ h_pc' = "returned reflect_point_across_line"
    /\ UNCHANGED <<editorVars, h_in, canvasVars>>

SpecReflect == InitReflect /\ [][call_reflect_point_across_line]_vars

\* C14: reflect_point_across_line maps (px, py) to (2a - px, py) when the line
\* through p1 and p2 is the vertical line x = a, to (px, 2b - py) when it is
\* the horizontal line y = b, and to (px, py) itself when p1 and p2 are the
\* same point; the line through (0, -5) and (0, 5) maps (3, 4) to (-3, 4).
C14_ReflectAcrossLine ==
    h_pc = "returned reflect_point_across_line" =>
        /\ (h_in.line_p1x = h_in.line_p2x /\ h_in.line_p1y # h_in.line_p2y) =>
              h_out = <<R(2 * h_in.line_p1x - h_in.px), R(h_in.py)>>
        /\ (h_in.line_p1y = h_in.line_p2y /\ h_in.line_p1x # h_in.line_p2x) =>
              h_out = <<R(h_in.px), R(2 * h_in.line_p1y - h_in.py)>>
        /\ (h_in.line_p1x = h_in.line_p2x /\ h_in.line_p1y = h_in.line_p2y) =>
              h_out = <<R(h_in.px), R(h_in.py)>>
        /\ h_in = [px |-> 3, py |-> 4, line_p1x |-> 0, line_p1y |-> -5,
                   line_p2x |-> 0, line_p2y |-> 5] => h_out = <<R(-3), R(4)>>

\* the call with the point (3, 4) and the line through (0, -5) and (0, 5) has
\* returned (-3, 4)
C14_Witness ==
    /\ h_pc = "returned reflect_point_across_line"
    /\ h_in = [px |-> 3, py |-> 4, line_p1x |-> 0, line_p1y |-> -5,
               line_p2x |-> 0, line_p2y |-> 5]
    /\ h_out = <<R(-3), R(4)>>

----------------------------------------------------------------------------
(* The coordinate conversions after a resize of the canvas *)

\* widths and heights the window system gives to resizeGL
ResizeWidths == {100, 401, 1000, 1001}
ResizeHeights == {500, 601, 700}

\* integer coordinates
ConvertedXs == {-500, -3, 0, 7}
ConvertedYs == {-9, 0, 1, 350}

InitCoords ==
    /\ FunctionCalled
    /\ h_pc = "resize"
    /\ h_in \in [x : ConvertedXs, y : ConvertedYs]

\* max(a, b)
Max(a, b) == IF a >= b THEN a ELSE b

\* OpenGLCanvas.resizeGL(width, height): update_canvas_dimensions sets the
\* globals of the canvas
resizeGL ==
    \E width \in ResizeWidths, height \in ResizeHeights :
      /\ h_pc = "resize"
      /\ CANVAS_WIDTH' = Max(MIN_CANVAS_WIDTH, width)
      /\ SCREEN_HEIGHT' = Max(MIN_WINDOW_HEIGHT, height)
      /\ MID_X' = CANVAS_WIDTH' \div 2
      /\ MID_Y' = SCREEN_HEIGHT' \div 2
      /\ h_pc' = "call conversions"
      /\ UNCHANGED <<editorVars, h_in, h_out>>

\* screen_to_logical(*logical_to_screen(x, y)) and
\* logical_to_screen(*screen_to_logical(x, y))
call_conversions ==
    /\ h_pc = "call conversions"
    /\ h_out' =
          [to_logical_of_screen |->
              screen_to_logical(logical_to_screen(h_in.x, h_in.y)[1],
                                logical_to_screen(h_in.x, h_in.y)[2]),
           to_screen_of_logical |->
              logical_to_screen(screen_to_logical(h_in.x, h_in.y)[1],
                                screen_to_logical(h_in.x, h_in.y)[2])]
    /\ h_pc' = "returned conversions"
    /\ UNCHANGED <<editorVars, h_in, canvasVars>>

NextCoords ==
    \/ resizeGL
    \/ call_conversions

SpecCoords == InitCoords /\ [][NextCoords]_vars

\* C15: screen_to_logical(logical_to_screen(x, y)) = (x, y) and
\* logical_to_screen(screen_to_logical(x, y)) = (x, y) for all integer (x, y),
\* for every value of the canvas midpoints MID_X, MID_Y that a resize can set.
C15_ConversionRoundTrip ==
    h_pc = "returned conversions" =>
        /\ h_out.to_logical_of_screen = <<h_in.x, h_in.y>>
        /\ h_out.to_screen_of_logical = <<h_in.x, h_in.y>>

\* after a resize to less than the minimum size (midpoints 200 and 300) both
\* round trips of a point with a non-zero y have returned the point
C15_Witness ==
    /\ h_pc = "returned conversions"
    /\ MID_X = 200
    /\ MID_Y = 300
    /\ h_in.y # 0
    /\ h_out.to_logical_of_screen = <<h_in.x, h_in.y>>
    /\ h_out.to_screen_of_logical = <<h_in.x, h_in.y>>

----------------------------------------------------------------------------
(* The line algorithms.  A call of an algorithm is modelled by the sequence  *)
(* of the calls of plot_styled_pixel it makes, in order; coordinates are     *)
(* exact rationals.                                                          *)

\* int(q): the integer part of q
PyInt(q) == IF q[1] >= 0 THEN q[1] \div q[2] ELSE -((-q[1]) \div q[2])

\* the call plot_styled_pixel(x, y, style, step, total_steps, mask)
PlotCall(x, y, step, total_steps) ==
    [x |-> x, y |-> y, step |-> step, total_steps |-> total_steps]

\* for i in range(i, n): plot_styled_pixel(round(x), round(y), style,
\* i + offset, steps, mask); x += x_inc; y += y_inc
RECURSIVE DdaLoop(_, _, _, _, _, _, _, _)
DdaLoop(x, y, x_inc, y_inc, i, n, offset, steps) ==
    IF i >= n THEN <<>>
    ELSE <<PlotCall(R(PyRound(x[1], x[2])), R(PyRound(y[1], y[2])), i + offset, steps)>>
         \o DdaLoop(QAdd(x, x_inc), QAdd(y, y_inc), x_inc, y_inc, i + 1, n, offset, steps)

\* steps = int(max(abs(dx), abs(dy)))
DdaSteps(x1, y1, x2, y2) == PyInt(QMax(QAbs(QSub(x2, x1)), QAbs(QSub(y2, y1))))

\* a DDA whose loop stops one step early: for i in range(steps)
dda_line_calls_short(x1, y1, x2, y2) ==
    LET steps == DdaSteps(x1, y1, x2, y2)
    IN  IF steps = 0 THEN <<PlotCall(x1, y1, 0, 0)>>
        ELSE DdaLoop(x1, y1, QDiv(QSub(x2, x1), R(steps)), QDiv(QSub(y2, y1), R(steps)),
                     0, steps, 0, steps)

\* the calls dda_line(x1, y1, x2, y2, style, thickness, mask) makes
dda_line_calls(x1, y1, x2, y2) ==
    LET steps == DdaSteps(x1, y1, x2, y2)
    IN  IF steps = 0 THEN <<PlotCall(x1, y1, 0, 0)>>
        ELSE DdaLoop(x1, y1, QDiv(QSub(x2, x1), R(steps)), QDiv(QSub(y2, y1), R(steps)),
                     0, steps + 1, 0, steps)

\* the calls symmetrical_dda_line(x1, y1, x2, y2, style, thickness, mask)
\* makes: the first half from (x1, y1) on, the second from (x2, y2) back
symmetrical_dda_line_calls(x1, y1, x2, y2) ==
    LET steps == DdaSteps(x1, y1, x2, y2)
        x_inc == QDiv(QSub(x2, x1), R(steps))
        y_inc == QDiv(QSub(y2, y1), R(steps))
    IN  IF steps = 0 THEN <<PlotCall(x1, y1, 0, 0)>>
        ELSE DdaLoop(x1, y1, x_inc, y_inc, 0, steps \div 2 + 1, 0, steps)
             \o DdaLoop(x2, y2, QNeg(x_inc), QNeg(y_inc), 0, steps - steps \div 2,
                        steps \div 2 + 1, steps)

\* for i in range(i, dx + 1) of bresenham_line
RECURSIVE BresenhamLoop(_, _, _, _, _, _, _, _, _)
BresenhamLoop(x, y, p, i, dx, dy, sx, sy, steep) ==
    IF i > dx THEN <<>>
    ELSE <<IF steep THEN PlotCall(y, x, i, dx) ELSE PlotCall(x, y, i, dx)>>
         \o BresenhamLoop(QAdd(x, R(sx)),
                          IF p >= 0 THEN QAdd(y, R(sy)) ELSE y,
                          (IF p >= 0 THEN p - 2 * dx ELSE p) + 2 * dy,
                          i + 1, dx, dy, sx, sy, steep)

\* bresenham_line after the swap of the axes of a steep line
BresenhamFrom(x1, y1, x2, y2, steep) ==
    LET dx == PyInt(QAbs(QSub(x2, x1)))
        dy == PyInt(QAbs(QSub(y2, y1)))
        sx == IF QLt(x1, x2) THEN 1 ELSE -1
        sy == IF QLt(y1, y2) THEN 1 ELSE -1
    IN  BresenhamLoop(x1, y1, 2 * dy - dx, 0, dx, dy, sx, sy, steep)

\* the calls bresenham_line(x1, y1, x2, y2, style, thickness, mask) makes
bresenham_line_calls(x1, y1, x2, y2) ==
    IF QLt(QAbs(QSub(x2, x1)), QAbs(QSub(y2, y1)))
    THEN BresenhamFrom(y1, x1, y2, x2, TRUE)
    ELSE BresenhamFrom(x1, y1, x2, y2, FALSE)

\* the calls the line algorithm f makes
line_algorithm_calls(f, x1, y1, x2, y2) ==
    IF f = dda_line THEN dda_line_calls(x1, y1, x2, y2)
    ELSE IF f = symmetrical_dda_line THEN symmetrical_dda_line_calls(x1, y1, x2, y2)
    ELSE bresenham_line_calls(x1, y1, x2, y2)


\* the line algorithms
LineAlgorithms == {dda_line, symmetrical_dda_line, bresenham_line}

\* endpoints: integer ones in every octant around the first endpoint, the
\* zero-length lines among them, and endpoints that are not integers, as
\* scaling and rotation give them
LineEndpoints ==
    [x1 : {R(0), R(2)}, y1 : {R(0), R(-1)},
     x2 : { R(n) : n \in -MaxCoord..MaxCoord }, y2 : { R(n) : n \in -MaxCoord..MaxCoord }]
    \cup [x1 : {R(0)}, y1 : {R(0)}, x2 : {Q(3, 5), Q(7, 4), Q(5, 2)}, y2 : {R(0), Q(1, 2)}]

InitLines ==
    /\ FunctionCalled
    /\ h_pc = "call line algorithm"
    /\ h_in \in { [algo |-> f, x1 |-> e.x1, y1 |-> e.y1, x2 |-> e.x2, y2 |-> e.y2] :
                    f \in LineAlgorithms, e \in LineEndpoints }

\* the call obj["algo"](x1, y1, x2, y2, style, thickness, mask) of a line
call_line_algorithm ==
    /\ h_pc = "call line algorithm"
    /\ h_out' = line_algorithm_calls(h_in.algo, h_in.x1, h_in.y1, h_in.x2, h_in.y2)
    /\ h_pc' = "returned line algorithm"
    /\ UNCHANGED <<editorVars, h_in, canvasVars>>

SpecLines == InitLines /\ [][call_line_algorithm]_vars

\* the endpoints of the call are integers
IntegerEndpoints == QIsInt(h_in.x1) /\ QIsInt(h_in.y1) /\ QIsInt(h_in.x2) /\ QIsInt(h_in.y2)

\* C16: for all integer endpoints (x1, y1), (x2, y2), in every octant and for
\* zero-length lines, each of dda_line, symmetrical_dda_line and
\* bresenham_line passes both (x1, y1) and (x2, y2) exactly to the style
\* modulator in its output sequence.
C16_EndpointsIncluded ==
    (h_pc = "returned line algorithm" /\ IntegerEndpoints) =>
        /\ \E i \in 1..Len(h_out) : h_out[i].x = h_in.x1 /\ h_out[i].y = h_in.y1
        /\ \E i \in 1..Len(h_out) : h_out[i].x = h_in.x2 /\ h_out[i].y = h_in.y2

\* bresenham_line has returned for the steep line from (2, -1) to (1, -3)
\* which goes down and to the left, with three calls of the style modulator
C16_Witness ==
    /\ h_pc = "returned line algorithm"
    /\ h_in.algo = bresenham_line
    /\ h_in.x1 = R(2) /\ h_in.y1 = R(-1) /\ h_in.x2 = R(1) /\ h_in.y2 = R(-3)
    /\ Len(h_out) = 3
    /\ h_out[1].x = R(2) /\ h_out[1].y = R(-1)
    /\ h_out[3].x = R(1) /\ h_out[3].y = R(-3)


\* C18: dda_line emits a single point when max(|dx|, |dy|) is 0 and otherwise
\* exactly steps + 1 points with the step indices 0..steps, where
\* steps = round(max(|dx|, |dy|)); for a horizontal line from (x1, y) to
\* (x2, y) with integer coordinates the points are exactly (x1, y), ...,
\* (x2, y), one per integer x, in order.
C18_DdaPointCount ==
    (h_pc = "returned line algorithm" /\ h_in.algo = dda_line) =>
        LET longest == QMax(QAbs(QSub(h_in.x2, h_in.x1)), QAbs(QSub(h_in.y2, h_in.y1)))
            steps == PyRound(longest[1], longest[2])
            toward == IF QLt(h_in.x1, h_in.x2) THEN 1 ELSE -1
        IN  /\ longest = R(0) => Len(h_out) = 1
            /\ longest # R(0) =>
                  /\ Len(h_out) = steps + 1
                  /\ \A i \in 1..Len(h_out) : h_out[i].step = i - 1
            /\ (IntegerEndpoints /\ h_in.y1 = h_in.y2) =>
                  /\ Len(h_out) = PyInt(longest) + 1
                  /\ \A i \in 1..Len(h_out) :
                        /\ h_out[i].x = QAdd(h_in.x1, R(toward * (i - 1)))
                        /\ h_out[i].y = h_in.y1

----------------------------------------------------------------------------
(* The circle algorithm *)

\* the eight calls of plot_styled_pixel of one pass of the loop of draw_circle
CircleOctants(x_c, y_c, x, y, i, r) ==
    << PlotCall(QAdd(x_c, x), QAdd(y_c, y), i, r),
       PlotCall(QSub(x_c, x), QAdd(y_c, y), i, r),
       PlotCall(QAdd(x_c, x), QSub(y_c, y), i, r),
       PlotCall(QSub(x_c, x), QSub(y_c, y), i, r),
       PlotCall(QAdd(x_c, y), QAdd(y_c, x), i, r),
       PlotCall(QSub(x_c, y), QAdd(y_c, x), i, r),
       PlotCall(QAdd(x_c, y), QSub(y_c, x), i, r),
       PlotCall(QSub(x_c, y), QSub(y_c, x), i, r) >>

\* while x <= y of draw_circle
RECURSIVE CircleLoop(_, _, _, _, _, _, _)
CircleLoop(x_c, y_c, x, y, p, i, r) ==
    IF ~QLe(x, y) THEN <<>>
    ELSE CircleOctants(x_c, y_c, x, y, i, r)
         \o IF QLt(p, R(0))
            THEN CircleLoop(x_c, y_c, QAdd(x, R(1)), y,
                            QAdd(p, QAdd(QMul(R(2), x), R(3))), i + 1, r)
            ELSE CircleLoop(x_c, y_c, QAdd(x, R(1)), QSub(y, R(1)),
                            QAdd(p, QAdd(QMul(R(2), QSub(x, y)), R(5))), i + 1, r)

\* a circle algorithm whose loop starts at x = 1
draw_circle_calls_from_one(x_c, y_c, r) ==
    CircleLoop(x_c, y_c, R(1), r, QSub(R(1), r), 0, r)

\* the calls draw_circle(x_c, y_c, r, style, thickness, mask) makes
draw_circle_calls(x_c, y_c, r) ==
    CircleLoop(x_c, y_c, R(0), r, QSub(R(1), r), 0, r)

\* integer centers and integer radii from 0 on
InitCircle ==
    /\ FunctionCalled
    /\ h_pc = "call draw_circle"
    /\ h_in \in [x_c : {R(-2), R(0), R(3), R(20)}, y_c : {R(-1), R(0), R(30)},
                 r : { R(n) : n \in 0..MaxRadius }]

\* the call draw_circle(x_c, y_c, r, style, thickness, mask)
call_draw_circle ==
    /\ h_pc = "call draw_circle"
    /\ h_out' = draw_circle_calls(h_in.x_c, h_in.y_c, h_in.r)
    /\ h_pc' = "returned draw_circle"
    /\ UNCHANGED <<editorVars, h_in, canvasVars>>

SpecCircle == InitCircle /\ [][call_draw_circle]_vars

\* the point (x, y) is among the points of the calls
Emitted(calls, x, y) == \E i \in 1..Len(calls) : calls[i].x = x /\ calls[i].y = y

\* C17: for every integer center (xc, yc) and integer radius r >= 0 the points
\* draw_circle emits include the four cardinal points (xc + r, yc),
\* (xc - r, yc), (xc, yc + r), (xc, yc - r), and no emitted point (x, y) has
\* |x - xc| > r or |y - yc| > r.
C17_CircleCardinalPoints ==
    h_pc = "returned draw_circle" =>
        /\ Emitted(h_out, QAdd(h_in.x_c, h_in.r), h_in.y_c)
        /\ Emitted(h_out, QSub(h_in.x_c, h_in.r), h_in.y_c)
        /\ Emitted(h_out, h_in.x_c, QAdd(h_in.y_c, h_in.r))
        /\ Emitted(h_out, h_in.x_c, QSub(h_in.y_c, h_in.r))
        /\ \A i \in 1..Len(h_out) :
              /\ QLe(QAbs(QSub(h_out[i].x, h_in.x_c)), h_in.r)
              /\ QLe(QAbs(QSub(h_out[i].y, h_in.y_c)), h_in.r)

\* draw_circle has returned for the center (0, 0) and the radius 5: it has
\* gone four times through its loop, and (5, 0) and (0, 5) are emitted
C17_Witness ==
    /\ h_pc = "returned draw_circle"
    /\ h_in = [x_c |-> R(0), y_c |-> R(0), r |-> R(5)]
    /\ Len(h_out) = 32
    /\ Emitted(h_out, R(5), R(0))
    /\ Emitted(h_out, R(0), R(5))

----------------------------------------------------------------------------
(* The style modulator *)

\* a modulator that reads the mask from its highest bit down
DoPlotFromTop(style, step, mask) ==
    IF style = STYLE_SOLID \/ style = STYLE_THICK THEN TRUE
    ELSE IF style = STYLE_DOTTED THEN step % 4 < 2
    ELSE IF style = STYLE_USER_DEFINED THEN (mask \div 2^(15 - (step % 16))) % 2 = 1
    ELSE FALSE

\* do_plot of plot_styled_pixel; (mask >> k) & 1 is bit k of the mask
DoPlot(style, step, mask) ==
    IF style = STYLE_SOLID \/ style = STYLE_THICK THEN TRUE
    ELSE IF style = STYLE_DOTTED THEN step % 4 < 2
    ELSE IF style = STYLE_USER_DEFINED THEN (mask \div 2^(step % 16)) % 2 = 1
    ELSE FALSE

\* 0 <= sx < CANVAS_WIDTH and 0 <= sy < SCREEN_HEIGHT
InCanvas(s) == 0 <= s[1] /\ s[1] < CANVAS_WIDTH /\ 0 <= s[2] /\ s[2] < SCREEN_HEIGHT

\* plot_styled_pixel(x_logical, y_logical, style, step, total_steps, mask):
\* the vertices it gives to OpenGL, none or one
plot_styled_pixel(x_logical, y_logical, style, step, total_steps, mask) ==
    IF DoPlot(style, step, mask) /\ InCanvas(logical_to_screen(x_logical, y_logical))
    THEN <<logical_to_screen(x_logical, y_logical)>>
    ELSE <<>>

\* masks of 16 bits: none, all, every bit alone, and two patterns
StyleMasks == {0, 65535, 43690, 255} \cup { 2^k : k \in 0..15 }

\* points inside the canvas and (the last two) outside of it
StylePoints == {<<0, 0>>, <<499, -349>>, <<500, 0>>, <<0, 351>>}

InitStyle ==
    /\ FunctionCalled
    /\ h_pc = "call plot_styled_pixel"
    /\ h_in \in [point : StylePoints,
                 style : {STYLE_SOLID, STYLE_DOTTED, STYLE_THICK, STYLE_USER_DEFINED},
                 step : 0..MaxStep, mask : StyleMasks]

\* the call plot_styled_pixel(x, y, style, step, total_steps, mask)
call_plot_styled_pixel ==
    /\ h_pc = "call plot_styled_pixel"
    /\ h_out' = plot_styled_pixel(h_in.point[1], h_in.point[2], h_in.style, h_in.step,
                                  MaxStep, h_in.mask)
    /\ h_pc' = "returned plot_styled_pixel"
    /\ UNCHANGED <<editorVars, h_in, canvasVars>>

SpecStyle == InitStyle /\ [][call_plot_styled_pixel]_vars

\* bit k of the mask is set, read from the binary digits of the mask
RECURSIVE BitSet(_, _)
BitSet(mask, k) == IF k = 0 THEN mask % 2 = 1 ELSE BitSet(mask \div 2, k - 1)

\* the point (x, y) is inside the canvas
InsideCanvas(x, y) ==
    /\ -MID_X <= x /\ x < CANVAS_WIDTH - MID_X
    /\ MID_Y - SCREEN_HEIGHT < y /\ y <= MID_Y

\* C19: for a point inside the canvas the style modulator plots step number
\* step exactly when the style is Solid or Thick, or the style is Dotted and
\* step mod 4 < 2, or the style is UserDefined and bit (step mod 16) of the
\* mask is set, for every step >= 0 and every 16-bit mask.
C19_StyleModulator ==
    (h_pc = "returned plot_styled_pixel" /\ InsideCanvas(h_in.point[1], h_in.point[2])) =>
        (h_out # <<>>) =
            \/ h_in.style \in {STYLE_SOLID, STYLE_THICK}
            \/ h_in.style = STYLE_DOTTED /\ h_in.step % 4 < 2
            \/ h_in.style = STYLE_USER_DEFINED /\ BitSet(h_in.mask, h_in.step % 16)

\* the modulator has plotted step 31 of the mask 0x8000, whose only bit is
\* bit 15, for a point inside the canvas
C19_Witness ==
    /\ h_pc = "returned plot_styled_pixel"
    /\ h_in.style = STYLE_USER_DEFINED
    /\ h_in.mask = 32768
    /\ h_in.step = 31
    /\ h_in.point = <<499, -349>>
    /\ h_out = <<<<999, 699>>>>

----------------------------------------------------------------------------
(* Selection: a click in the mode "Select Object" on a store of objects *)

\* an object of the given thickness
ThickObject(obj, thickness) == [obj EXCEPT !.style = STYLE_THICK, !.thickness = thickness]

\* Objects as the editor makes them from clicks on the grid.  For the click at
\* (20, 30) their sort keys are 20, 0, 1, 21, 0, 1/2 and 0; the last two
\* objects are not hit.
SelectableObjects ==
    { EditedObject("circle", [xc |-> R(20), yc |-> R(30), r |-> R(20)], <<>>),
      EditedObject("circle", [xc |-> R(0), yc |-> R(30), r |-> R(20)], <<>>),
      EditedObject("circle", [xc |-> R(20), yc |-> R(30), r |-> R(1)], <<>>),
      ThickObject(EditedObject("circle", [xc |-> R(20), yc |-> R(30), r |-> R(20)], <<>>), 3),
      EditedObject("line", [x1 |-> R(20), y1 |-> R(30), x2 |-> R(60), y2 |-> R(30)], <<>>),
      EditedObject("ellipse", [xc |-> R(40), yc |-> R(30), rx |-> R(40), ry |-> R(20)], <<>>),
      EditedObject("ellipse", [xc |-> R(20), yc |-> R(30), rx |-> R(20), ry |-> R(40)], <<>>),
      EditedObject("line", [x1 |-> R(100), y1 |-> R(100), x2 |-> R(140), y2 |-> R(100)], <<>>),
      EditedObject("circle", [xc |-> R(200), yc |-> R(200), r |-> R(20)], <<>>) }

\* the store of the objects of s, with the ids the editor gives them in order
StoreOf(s) == [i \in 1..Len(s) |-> [s[i] EXCEPT !.id = i - 1, !.uid = i]]

\* the button "Select Object" was pressed on a store of up to MaxStore objects
InitSelect ==
    /\ \E s \in SeqsUpTo(SelectableObjects, MaxStore) :
          /\ objects_to_draw = StoreOf(s)
          /\ next_object_id = Len(s)
          /\ created = [i \in 1..Len(s) |-> i - 1]
          /\ data_file = save_objects_to_file(StoreOf(s))
    /\ current_mode = MODE_SELECTING_OBJECT
    /\ current_algo_func = None
    /\ temp_points = <<>>
    /\ selected_object_id = -1
    /\ current_style_choice = STYLE_SOLID
    /\ current_thickness = 1
    /\ current_mask = 0
    /\ current_color = COLORS_BLUE
    /\ input_dialog_active = FALSE
    /\ input_dialog_callback = NoCallback
    /\ CanvasAtRest
    /\ running = TRUE
    /\ session = 1
    /\ n_styled = 0
    /\ deleted = {}
    /\ n_appended = 0
    /\ h_pc = "idle"
    /\ h_in = <<>>
    /\ h_out = <<>>

SpecSelect == InitSelect /\ [][mousePressEvent]_vars

\* the logical point of a click at the raw position
LogicalOf(raw) ==
    screen_to_logical(PyRound(raw[1], GRID_SPACING) * GRID_SPACING,
                      PyRound(raw[2], GRID_SPACING) * GRID_SPACING)

\* the indices of the objects that a click at (lx, ly) hits
HitIndices(objects, lx, ly) ==
    { i \in 1..Len(objects) : ~HitDistance(objects[i], lx, ly).inf }

\* the indices of the hit objects whose sort key is the smallest
SmallestKeyIndices(objects, lx, ly) ==
    { i \in HitIndices(objects, lx, ly) :
        \A j \in HitIndices(objects, lx, ly) :
            ~KeyLt(HitDistance(objects[j], lx, ly), HitDistance(objects[i], lx, ly)) }

\* the id of the first object of the list among those of the smallest key,
\* and -1 when no object is hit
SelectionOf(objects, lx, ly) ==
    IF HitIndices(objects, lx, ly) = {} THEN -1
    ELSE objects[CHOOSE i \in SmallestKeyIndices(objects, lx, ly) :
                    \A j \in SmallestKeyIndices(objects, lx, ly) : i <= j].id

\* C20: a selection click returns the object with the smallest sort key among
\* all objects that are hit; when several hit objects have the same smallest
\* key, the one that comes first in the object list wins; when no object is
\* hit, the result is none (selected id -1).
C20_SelectionSmallestKey ==
    [][ (current_mode = MODE_SELECTING_OBJECT /\ mousePressEvent) =>
          \E raw \in RawClicks :
             selected_object_id' =
                SelectionOf(objects_to_draw, LogicalOf(raw)[1], LogicalOf(raw)[2]) ]_vars

\* In a store of a circle of key 20, a line of key 0 and a circle of key 0 the
\* click has selected the line, the first of the two objects of the smallest key.
C20_Witness ==
    /\ Len(objects_to_draw) = 3
    /\ objects_to_draw[1].params = [xc |-> R(20), yc |-> R(30), r |-> R(20)]
    /\ objects_to_draw[1].thickness = 1
    /\ objects_to_draw[2].type = "line"
    /\ objects_to_draw[2].params.x1 = R(20)
    /\ objects_to_draw[3].params = [xc |-> R(0), yc |-> R(30), r |-> R(20)]
    /\ current_mode = MODE_IDLE
    /\ selected_object_id = 1

----------------------------------------------------------------------------
(* The hit test of a line: one pass of the selection loop for one object *)

\* a line object with the given second endpoint, thickness and records
HitLine(x2, y2, thickness, transformations) ==
    ThickObject(EditedObject("line", [x1 |-> R(0), y1 |-> R(0), x2 |-> R(x2), y2 |-> R(y2)],
                             transformations), thickness)

\* lines from (0, 0) of the thicknesses 1 to 3, as drawn, moved or scaled, and
\* clicks at integer logical points around them
InitHit ==
    LET ends == {<<0, 0>>, <<10, 0>>, <<10, 10>>, <<0, 20>>}
        records == { <<>>,
                     <<[type |-> "translate", dx |-> R(20), dy |-> R(-10)]>>,
                     <<[type |-> "scale", sx |-> R(2), sy |-> R(3),
                        fx |-> R(10), fy |-> R(10)]>> }
    IN  /\ FunctionCalled
        /\ h_pc = "call hit test"
        /\ h_in \in [obj : { HitLine(e[1], e[2], th, ts) :
                               e \in ends, th \in {1, 2, 3}, ts \in records },
                     logical_x : {-12, -11, 0, 5, 10, 21, 22, 25},
                     logical_y : {0, 2, 10, 11, 12, 25}]

\* the body of the loop over objects_to_draw for the object h_in.obj
call_hit_test ==
    /\ h_pc = "call hit test"
    /\ h_out' = HitDistance(h_in.obj, h_in.logical_x, h_in.logical_y)
    /\ h_pc' = "returned hit test"
    /\ UNCHANGED <<editorVars, h_in, canvasVars>>

SpecHit == InitHit /\ [][call_hit_test]_vars

\* the square of the distance from the point (cx, cy) to the segment from
\* (x1, y1) to (x2, y2): to an endpoint when the foot of the perpendicular is
\* outside the segment, and else the distance to the line through the endpoints
SegmentDistSq(x1, y1, x2, y2, cx, cy) ==
    LET dx == QSub(x2, x1)
        dy == QSub(y2, y1)
        len2 == QAdd(QSq(dx), QSq(dy))
        dot == QAdd(QMul(QSub(cx, x1), dx), QMul(QSub(cy, y1), dy))
        cross == QSub(QMul(QSub(cx, x1), dy), QMul(QSub(cy, y1), dx))
    IN  IF QLe(dot, R(0)) THEN QAdd(QSq(QSub(cx, x1)), QSq(QSub(cy, y1)))
        ELSE IF QLe(len2, dot) THEN QAdd(QSq(QSub(cx, x2)), QSq(QSub(cy, y2)))
        ELSE QDiv(QSq(cross), len2)

\* the hit test has returned a finite distance for the object
IsHit == ~h_out.inf

\* C21: a line object is hit by a click exactly when the distance from the
\* click to the closest point of the effective segment, clamped to its
\* endpoints, is at most (thickness - 1)/2 + 10; the line of thickness 3 from
\* (0, 0) to (10, 0) is hit by a click at (5, 2) and not by a click at (5, 25).
C21_LineHit ==
    h_pc = "returned hit test" =>
        LET ep == EffectiveParams(h_in.obj)
            bound == QAdd(QDiv(R(h_in.obj.thickness - 1), R(2)), R(10))
            d2 == SegmentDistSq(ep.x1, ep.y1, ep.x2, ep.y2,
                                R(h_in.logical_x), R(h_in.logical_y))
        IN  /\ IsHit <=> QLe(d2, QSq(bound))
            /\ (h_in.obj = HitLine(10, 0, 3, <<>>) /\ h_in.logical_x = 5) =>
                  /\ h_in.logical_y = 2 => IsHit
                  /\ h_in.logical_y = 25 => ~IsHit

\* The line of thickness 3 from (0, 0) to (10, 0) is tested against a click at
\* (5, 2): the closest point of the segment is (5, 0) at the distance 2, and
\* the line is hit with the sort key |2 - 1|.
C21_Witness ==
    /\ h_pc = "returned hit test"
    /\ h_in.obj = HitLine(10, 0, 3, <<>>)
    /\ h_in.logical_x = 5
    /\ h_in.logical_y = 2
    /\ h_out = Key(R(4), R(1))

----------------------------------------------------------------------------
(* Invariants of the editor *)

\* the algorithm functions of the objects of a type, each with its name
AlgorithmsOf(type) ==
    CASE type = "line" -> { <<dda_line, "dda_line">>,
                            <<symmetrical_dda_line, "symmetrical_dda_line">>,
                            <<bresenham_line, "bresenham_line">> }
      [] type = "circle" -> { <<draw_circle, "draw_circle">> }
      [] type = "ellipse" -> { <<draw_ellipse, "draw_ellipse">> }
      [] OTHER -> {}

\* C22: in every reachable state, every stored object of type line is bound to
\* one of the three line algorithms (DDA, Symmetrical DDA, Bresenham), every
\* circle to Midpoint Circle and every ellipse to Midpoint Ellipse, whatever
\* order the algorithm buttons, style buttons and canvas clicks came in; and
\* the stored algorithm name names the bound algorithm.
C22_AlgorithmOfType ==
    \A i \in 1..Len(objects_to_draw) :
        <<objects_to_draw[i].algo, objects_to_draw[i].algorithm>>
            \in AlgorithmsOf(objects_to_draw[i].type)

\* A Bresenham line was drawn, then the style Thick was chosen and an ellipse
\* was drawn.
C22_Witness ==
    /\ Len(objects_to_draw) = 2
    /\ objects_to_draw[1].type = "line"
    /\ objects_to_draw[1].algo = bresenham_line
    /\ objects_to_draw[1].style = STYLE_SOLID
    /\ objects_to_draw[2].type = "ellipse"
    /\ objects_to_draw[2].algo = draw_ellipse
    /\ objects_to_draw[2].style = STYLE_THICK
    /\ objects_to_draw[2].thickness = 2
    /\ current_mode = MODE_IDLE


\* C23: in every reachable state the thickness of every stored object is a
\* positive integer (>= 1), whatever text was entered in the thickness dialog
\* when the style was chosen or when the object was edited.
C23_ThicknessPositive ==
    \A i \in 1..Len(objects_to_draw) : objects_to_draw[i].thickness >= 1

\* C24: in every reachable state the bit mask of every stored object is a
\* 16-bit pattern, an integer in 0..65535, whatever hexadecimal text was
\* entered in the mask dialog when the style was chosen or when the object was
\* edited.
C24_MaskSixteenBits ==
    \A i \in 1..Len(objects_to_draw) : objects_to_draw[i].mask \in 0..65535

----------------------------------------------------------------------------
(* Rendering: the calls of the scan-conversion algorithms that paintGL makes *)

\* draw_thick_object for a circle or an ellipse from its i-th ring on: one
\* call for every ring whose radii are at least 1; a thick line is a quad
\* given to OpenGL and calls no algorithm
RECURSIVE ThickRings(_, _, _, _)
ThickRings(effective_params, obj_type, thickness, i) ==
    IF i >= thickness THEN <<>>
    ELSE LET offset == QSub(R(i), QDiv(R(thickness - 1), R(2)))
             rest == ThickRings(effective_params, obj_type, thickness, i + 1)
         IN  IF obj_type = "circle"
             THEN LET offset_r == QAdd(effective_params.r, offset)
                  IN  IF QLe(R(1), offset_r)
                      THEN << [algo |-> draw_circle,
                               args |-> <<effective_params.xc, effective_params.yc,
                                          R(PyInt(offset_r))>>] >> \o rest
                      ELSE rest
             ELSE IF obj_type = "ellipse"
             THEN LET offset_rx == QAdd(effective_params.rx, offset)
                      offset_ry == QAdd(effective_params.ry, offset)
                  IN  IF QLe(R(1), offset_rx) /\ QLe(R(1), offset_ry)
                      THEN << [algo |-> draw_ellipse,
                               args |-> <<effective_params.xc, effective_params.yc,
                                          R(PyInt(offset_rx)), R(PyInt(offset_ry))>>] >>
                           \o rest
                      ELSE rest
             ELSE <<>>

draw_thick_object(effective_params, obj_type, thickness) ==
    ThickRings(effective_params, obj_type, thickness, 0)

\* the body of the loop of paintGL for one object: the algorithm calls it
\* makes, each with the coordinates and radii it hands over
AlgorithmCalls(obj) ==
    LET effective_params == apply_transformations(obj).ret
    IN  IF obj.style = STYLE_THICK
        THEN draw_thick_object(effective_params, obj.type, obj.thickness)
        ELSE IF obj.type = "line"
        THEN << [algo |-> obj.algo,
                 args |-> <<effective_params.x1, effective_params.y1,
                            effective_params.x2, effective_params.y2>>] >>
        ELSE IF obj.type = "circle"
        THEN << [algo |-> obj.algo,
                 args |-> <<effective_params.xc, effective_params.yc,
                            effective_params.r>>] >>
        ELSE IF obj.type = "ellipse"
        THEN << [algo |-> obj.algo,
                 args |-> <<effective_params.xc, effective_params.yc,
                            effective_params.rx, effective_params.ry>>] >>
        ELSE <<>>

\* the record that scale_y_callback appends for the factors 1/2 or 3/2 about c
ScaledBy(f, c) == [type |-> "scale", sx |-> f, sy |-> f, fx |-> c[1], fy |-> c[2]]

\* Objects as clicks on the grid and the dialogs make them: a circle of
\* radius 1 scaled by 3/2, a line scaled twice by 1/2 and a line rotated about
\* its midpoint, thick circles and ellipses, and objects as they were drawn.
PaintedObjects ==
    { EditedObject("circle", [xc |-> R(20), yc |-> R(30), r |-> R(1)],
                   <<ScaledBy(Q(3, 2), <<R(20), R(30)>>)>>),
      EditedObject("line", [x1 |-> R(0), y1 |-> R(10), x2 |-> R(20), y2 |-> R(10)],
                   <<ScaledBy(Q(1, 2), <<R(10), R(10)>>), ScaledBy(Q(1, 2), <<R(10), R(10)>>)>>),
      EditedObject("line", [x1 |-> R(0), y1 |-> R(10), x2 |-> R(20), y2 |-> R(30)],
                   <<[type |-> "rotate", angle |-> R(90), cx |-> R(10), cy |-> R(20)]>>),
      ThickObject(EditedObject("circle", [xc |-> R(20), yc |-> R(30), r |-> R(20)], <<>>), 2),
      ThickObject(EditedObject("ellipse", [xc |-> R(20), yc |-> R(30), rx |-> R(1),
                                           ry |-> R(20)], <<>>), 3),
      ThickObject(EditedObject("line", [x1 |-> R(0), y1 |-> R(10), x2 |-> R(20),
                                        y2 |-> R(10)], <<>>), 3),
      EditedObject("ellipse", [xc |-> R(40), yc |-> R(30), rx |-> R(40), ry |-> R(20)], <<>>),
      EditedObject("circle", [xc |-> R(20), yc |-> R(30), r |-> R(20)], <<>>) }

\* the window is about to be painted with a store of up to MaxPainted objects
InitPaint ==
    /\ \E s \in SeqsUpTo(PaintedObjects, MaxPainted) :
          /\ objects_to_draw = StoreOf(s)
          /\ next_object_id = Len(s)
          /\ created = [i \in 1..Len(s) |-> i - 1]
          /\ data_file = save_objects_to_file(StoreOf(s))
    /\ current_mode = MODE_IDLE
    /\ current_algo_func = None
    /\ temp_points = <<>>
    /\ selected_object_id = -1
    /\ current_style_choice = STYLE_SOLID
    /\ current_thickness = 1
    /\ current_mask = 0
    /\ current_color = COLORS_BLUE
    /\ input_dialog_active = FALSE
    /\ input_dialog_callback = NoCallback
    /\ CanvasAtRest
    /\ running = TRUE
    /\ session = 1
    /\ n_styled = 0
    /\ deleted = {}
    /\ n_appended = 0
    /\ h_pc = "call paintGL"
    /\ h_in = <<>>
    /\ h_out = <<>>

\* paintGL: the loop over objects_to_draw; h_out is the list of the algorithm
\* calls, object by object
paintGL ==
    /\ h_pc = "call paintGL"
    /\ h_out' = [i \in 1..Len(objects_to_draw) |-> AlgorithmCalls(objects_to_draw[i])]
    /\ objects_to_draw' = AfterApplyOnAll(objects_to_draw)
    /\ h_pc' = "returned paintGL"
    /\ UNCHANGED <<next_object_id, styleVars, uiVars, dialogVars, data_file, running,
                   historyVars, h_in, canvasVars>>

SpecPaint == InitPaint /\ [][paintGL]_vars

\* C25: whenever an object is rendered, the coordinates and radii handed to its
\* scan-conversion algorithm are integers (effective parameters are rounded
\* first if necessary), for every object of every reachable store, including
\* objects that were scaled by a non-integer factor or whose rotation or scale
\* center is a half-integer midpoint.
C25_IntegerArguments ==
    h_pc = "returned paintGL" =>
        \A i \in 1..Len(h_out) : \A c \in 1..Len(h_out[i]) :
            \A a \in 1..Len(h_out[i][c].args) : QIsInt(h_out[i][c].args[a])

----------------------------------------------------------------------------
(* The thickness dialog of the button "Thick" *)

\* The button "Thick" was pressed and the dialog is open; an earlier dialog
\* has left a current thickness of up to MaxThickness, the store holds at most
\* one object, and h_in is the text that is going to be entered.
InitThick ==
    /\ \E s \in SeqsUpTo(SelectableObjects, 1) :
          /\ objects_to_draw = StoreOf(s)
          /\ next_object_id = Len(s)
          /\ created = [i \in 1..Len(s) |-> i - 1]
          /\ data_file = save_objects_to_file(StoreOf(s))
    /\ current_mode = MODE_IDLE
    /\ current_algo_func = None
    /\ temp_points = <<>>
    /\ selected_object_id = -1
    /\ current_style_choice = STYLE_THICK
    /\ current_thickness \in 1..MaxThickness
    /\ current_mask = 0
    /\ current_color = COLORS_BLUE
    /\ input_dialog_active = TRUE
    /\ input_dialog_callback = MethodCallback("thickness_input_callback")
    /\ CanvasAtRest
    /\ running = TRUE
    /\ session = 1
    /\ n_styled = 0
    /\ deleted = {}
    /\ n_appended = 0
    /\ h_pc = "idle"
    /\ h_in \in {"2", "0", "-1", "abc"}
    /\ h_out = <<>>

\* Return in the dialog with the text h_in
return_thickness == thickness_input(h_in)

SpecThick == InitThick /\ [][return_thickness]_vars

\* C26: when the text entered for the drawing thickness is non-numeric or out
\* of range (zero or negative), the current thickness falls back to the
\* default 1 and the problem is reported; the object store is unchanged and
\* the editor stays usable.
C26_ThicknessFallback ==
    (~input_dialog_active /\ (~IntOfText(h_in).ok \/ IntOfText(h_in).val <= 0)) =>
        /\ current_thickness = 1
        /\ data_file = save_objects_to_file(objects_to_draw)
        /\ running

----------------------------------------------------------------------------
(* The selection *)

\* C27: choosing a drawing algorithm deselects the current object: in the
\* state right after set_algorithm returns, selected_object_id is -1, whatever
\* object was selected before.
C27_AlgorithmDeselects == [][set_algorithm => selected_object_id' = -1]_vars


\* C28: in every reachable state, selected_object_id is either -1 or the id of
\* an object currently in the store, under every interleaving of canvas
\* clicks, menu buttons and dialog Return and Escape events.
C28_SelectionInStore ==
    \/ selected_object_id = -1
    \/ \E i \in 1..Len(objects_to_draw) : objects_to_draw[i].id = selected_object_id


\* the number of pending click points each click mode expects
PendingPoints(mode) ==
    IF mode \in {MODE_DRAWING_LINE_P2, MODE_DRAWING_CIRCLE_RADIUS,
                 MODE_DRAWING_ELLIPSE_RX_POINT, MODE_APPLY_REFLECT_LINE_P2} THEN {1}
    ELSE IF mode = MODE_DRAWING_ELLIPSE_RY_POINT THEN {2}
    ELSE IF mode \in {MODE_DRAWING_LINE_P1, MODE_DRAWING_CIRCLE_CENTER,
                      MODE_DRAWING_ELLIPSE_CENTER, MODE_APPLY_REFLECT_LINE_P1} THEN {0}
    ELSE Nat

\* C29: in every reachable state the number of pending click points matches
\* the mode: one in the second-click modes of a line, a circle, an ellipse and
\* a reflection line, two in the third-click mode of an ellipse, none in the
\* first-click modes.
C29_PendingPointsMatchMode == Len(temp_points) \in PendingPoints(current_mode)


\* the first two clicks of an ellipse are pending
C29_Witness ==
    /\ current_mode = MODE_DRAWING_ELLIPSE_RY_POINT
    /\ Len(temp_points) = 2
    /\ Len(objects_to_draw) > 0

----------------------------------------------------------------------------
(* The ellipse algorithm *)

\* the four calls of plot_styled_pixel of one pass of a loop of draw_ellipse
EllipseQuadrants(x_c, y_c, x, y, i, n) ==
    << PlotCall(QAdd(x_c, x), QAdd(y_c, y), i, n),
       PlotCall(QSub(x_c, x), QAdd(y_c, y), i, n),
       PlotCall(QAdd(x_c, x), QSub(y_c, y), i, n),
       PlotCall(QSub(x_c, x), QSub(y_c, y), i, n) >>

\* integer centers and integer radii from 0 on
InitEllipse ==
    /\ FunctionCalled
    /\ h_pc = "call draw_ellipse"
    /\ h_in \in [x_c : {R(0), R(20)}, y_c : {R(-1)},
                 rx : { R(n) : n \in 0..MaxRadius }, ry : { R(n) : n \in 0..MaxRadius }]

\* the call draw_ellipse(x_c, y_c, rx, ry, style, thickness, mask) up to the
\* first test of the loop of region 1; h_out holds the local variables and the
\* calls of plot_styled_pixel made so far
call_draw_ellipse ==
    /\ h_pc = "call draw_ellipse"
    /\ h_out' = [x |-> R(0), y |-> h_in.ry, i |-> 0, calls |-> <<>>,
                 p |-> QAdd(QSub(QSq(h_in.ry), QMul(QSq(h_in.rx), h_in.ry)),
                            QMul(Q(1, 4), QSq(h_in.rx)))]
    /\ h_pc' = "region 1"
    /\ UNCHANGED <<editorVars, h_in, canvasVars>>

\* a pass of region 2 that always steps x
ellipse_region_2_diagonal ==
    /\ h_pc = "region 2"
    /\ LET l == h_out
       IN  IF QLe(R(0), l.y)
           THEN /\ h_out' = [l EXCEPT !.calls = @ \o EllipseQuadrants(h_in.x_c, h_in.y_c, l.x,
                                                      l.y, l.i, QMax(h_in.rx, h_in.ry)),
                                      !.i = @ + 1,
                                      !.y = QSub(l.y, R(1)),
                                      !.x = QAdd(l.x, R(1))]
                /\ h_pc' = "region 2"
           ELSE /\ h_pc' = "returned draw_ellipse"
                /\ h_out' = h_out
    /\ UNCHANGED <<editorVars, h_in, canvasVars>>

\* one test of while (2 * ry * ry * x) < (2 * rx * rx * y) and, when it holds,
\* the pass of the loop; when it fails, the assignment of p2
ellipse_region_1 ==
    /\ h_pc = "region 1"
    /\ LET l == h_out
           rx == h_in.rx
           ry == h_in.ry
           x == QAdd(l.x, R(1))
       IN  IF QLt(QMul(QMul(R(2), QSq(ry)), l.x), QMul(QMul(R(2), QSq(rx)), l.y))
           THEN /\ h_out' =
                      [l EXCEPT !.calls = @ \o EllipseQuadrants(h_in.x_c, h_in.y_c, l.x, l.y,
                                                                l.i, QMax(rx, ry)),
                                !.i = @ + 1,
                                !.x = x,
                                !.y = IF QLt(l.p, R(0)) THEN l.y ELSE QSub(l.y, R(1)),
                                !.p = IF QLt(l.p, R(0))
                                      THEN QAdd(l.p, QAdd(QMul(QMul(R(2), QSq(ry)), x), QSq(ry)))
                                      ELSE QAdd(l.p,
                                             QAdd(QSub(QMul(QMul(R(2), QSq(ry)), x),
                                                       QMul(QMul(R(2), QSq(rx)),
                                                            QSub(l.y, R(1)))),
                                                  QSq(ry)))]
                /\ h_pc' = "region 1"
           ELSE /\ h_out' =
                      [l EXCEPT !.p = QSub(QAdd(QMul(QSq(ry), QSq(QAdd(l.x, Q(1, 2)))),
                                                QMul(QSq(rx), QSq(QSub(l.y, R(1))))),
                                           QMul(QSq(rx), QSq(ry)))]
                /\ h_pc' = "region 2"
    /\ UNCHANGED <<editorVars, h_in, canvasVars>>

\* one test of while y >= 0 and, when it holds, the pass of the loop; when it
\* fails, draw_ellipse returns
ellipse_region_2 ==
    /\ h_pc = "region 2"
    /\ LET l == h_out
           rx == h_in.rx
           ry == h_in.ry
           y == QSub(l.y, R(1))
           x == QAdd(l.x, R(1))
       IN  IF QLe(R(0), l.y)
           THEN /\ h_out' =
                      [l EXCEPT !.calls = @ \o EllipseQuadrants(h_in.x_c, h_in.y_c, l.x, l.y,
                                                                l.i, QMax(rx, ry)),
                                !.i = @ + 1,
                                !.y = y,
                                !.x = IF QLt(R(0), l.p) THEN l.x ELSE x,
                                !.p = IF QLt(R(0), l.p)
                                      THEN QSub(l.p, QAdd(QMul(QMul(R(2), QSq(rx)), y), QSq(rx)))
                                      ELSE QAdd(l.p,
                                             QAdd(QSub(QMul(QMul(R(2), QSq(ry)), x),
                                                       QMul(QMul(R(2), QSq(rx)), y)),
                                                  QSq(rx)))]
                /\ h_pc' = "region 2"
           ELSE /\ h_pc' = "returned draw_ellipse"
                /\ h_out' = h_out
    /\ UNCHANGED <<editorVars, h_in, canvasVars>>

SpecEllipse ==
    InitEllipse /\ [][call_draw_ellipse \/ ellipse_region_1 \/ ellipse_region_2]_vars

\* C30: for every integer center (xc, yc) and integer radii rx >= 0, ry >= 0
\* (rx == ry included) draw_ellipse terminates, its two loops making no more
\* than rx + ry + 1 passes in all, and no point (x, y) it emits has
\* |x - xc| > rx or |y - yc| > ry.
C30_EllipseInsideBox ==
    h_pc \in {"region 1", "region 2", "returned draw_ellipse"} =>
        /\ QLe(R(h_out.i), QAdd(QAdd(h_in.rx, h_in.ry), R(1)))
        /\ \A k \in 1..Len(h_out.calls) :
              /\ QLe(QAbs(QSub(h_out.calls[k].x, h_in.x_c)), h_in.rx)
              /\ QLe(QAbs(QSub(h_out.calls[k].y, h_in.y_c)), h_in.ry)

\* draw_ellipse has returned for the center (20, -1) and the radii 3 and 3:
\* both loops have been gone through and (23, -1) and (20, 2) are emitted
C30_Witness ==
    /\ h_pc = "returned draw_ellipse"
    /\ h_in = [x_c |-> R(20), y_c |-> R(-1), rx |-> R(3), ry |-> R(3)]
    /\ h_out.i > 2
    /\ Emitted(h_out.calls, R(23), R(-1))
    /\ Emitted(h_out.calls, R(20), R(2))

====
